---------------------------- MODULE Spec2Model ----------------------------
(***************************************************************************)
(* A model of knsd/daemonize (src/src/lib.rs): Daemonize::start and the    *)
(* helpers it calls, run by one or two invocations on a small POSIX-like   *)
(* environment (processes, descriptor tables, advisory locks, a file       *)
(* system, a name service).                                                *)
(***************************************************************************)
EXTENDS Integers, Sequences, FiniteSets, TLC

(***************************************************************************)
(* Bounds of the model.                                                    *)
(***************************************************************************)
\* The pid of the first original process; forked children get the next pids.
PidBase == 8
\* The longest content a pid file may hold before start is called.
MaxStaleLen == 3
\* How often a process calls start again after start has returned an error.
MaxRestarts == 1

(***************************************************************************)
(* Option<T>: None is the empty sequence, Some(x) the sequence <<x>>.      *)
(***************************************************************************)
None == << >>
Some(x) == << x >>
IsSome(o) == Len(o) = 1
Unwrap(o) == o[1]

(***************************************************************************)
(* DaemonizeError: the variant and the errno it carries ("" when the       *)
(* variant has no field).                                                  *)
(***************************************************************************)
NoErrno == ""
DaemonizeError(kind, errno) == [kind |-> kind, errno |-> errno]
Ok(v) == [ok |-> TRUE, val |-> v]
Err(e) == [ok |-> FALSE, val |-> e]

\* The variants of DaemonizeError that carry an Errno.
ErrnoKinds ==
    {"DetachSession", "SetGroup", "SetUser", "LockPidfile", "ChownPidfile",
     "RedirectStreams", "Chroot"}

\* DaemonizeError::__description (lib.rs 130-154).
description(e) ==
    CASE e.kind = "Fork" -> "unable to fork"
      [] e.kind = "DetachSession" -> "unable to create new session"
      [] e.kind = "GroupNotFound" -> "unable to resolve group name to group id"
      [] e.kind = "GroupContainsNul" -> "group option contains NUL"
      [] e.kind = "SetGroup" -> "unable to set group"
      [] e.kind = "UserNotFound" -> "unable to resolve user name to user id"
      [] e.kind = "UserContainsNul" -> "user option contains NUL"
      [] e.kind = "SetUser" -> "unable to set user"
      [] e.kind = "ChangeDirectory" -> "unable to change directory"
      [] e.kind = "PathContainsNul" -> "pid_file option contains NUL"
      [] e.kind = "OpenPidfile" -> "unable to open pid file"
      [] e.kind = "LockPidfile" -> "unable to lock pid file"
      [] e.kind = "ChownPidfile" -> "unable to chown pid file"
      [] e.kind = "RedirectStreams" ->
            "unable to redirect standard streams to /dev/null"
      [] e.kind = "WritePid" -> "unable to write self pid to pid file"
      [] e.kind = "Chroot" -> "unable to chroot into directory"

\* Display for DaemonizeError (lib.rs 156-160): what fmt writes to the
\* formatter, piece by piece.
Display(e) == << description(e) >>

(***************************************************************************)
(* Integers of the source.                                                 *)
(***************************************************************************)
\* uid_t::max_value() and gid_t::max_value().  uid_t and gid_t are u32; an id
\* is written here as the signed reading of its 32 bits, so that 0xFFFFFFFF,
\* which is also chown's (uid_t)-1, is -1 and 0xFFFFFFFE is -2.
IdMax == -1
\* Daemonize::new: umask 0o027.
DefaultUmask == 23
\* create_pid_file: open(..., 0o666).
PidFileMode == 438
STDIN_FILENO == 0
STDOUT_FILENO == 1
STDERR_FILENO == 2

\* x with the bits of m cleared, over the 9 permission bits.
RECURSIVE ClearBits(_, _, _)
ClearBits(x, m, n) ==
    IF n = 0 THEN 0
    ELSE (IF (x % 2 = 1) /\ (m % 2 = 0) THEN 1 ELSE 0)
         + 2 * ClearBits(x \div 2, m \div 2, n - 1)

(***************************************************************************)
(* format!("{}", pid).into_bytes(): the decimal digits of a pid, most      *)
(* significant first, one character per element.                           *)
(***************************************************************************)
DigitChar(d) == <<"0", "1", "2", "3", "4", "5", "6", "7", "8", "9">>[d + 1]

RECURSIVE FormatPid(_)
FormatPid(n) ==
    IF n < 10 THEN << DigitChar(n) >>
    ELSE Append(FormatPid(n \div 10), DigitChar(n % 10))

(***************************************************************************)
(* Paths.  A path is absolute or relative and a sequence of components; a  *)
(* location is the sequence of components from the real root.              *)
(***************************************************************************)
AbsPath(comps) == [abs |-> TRUE, comps |-> comps, nul |-> FALSE]
RelPath(comps) == [abs |-> FALSE, comps |-> comps, nul |-> FALSE]
\* A path one of whose bytes is NUL.
NulPath(comps) == [abs |-> TRUE, comps |-> comps, nul |-> TRUE]

\* pathbuf_into_cstring: CString::new refuses an interior NUL.
pathbuf_into_cstring(path) ==
    IF path.nul THEN Err(DaemonizeError("PathContainsNul", NoErrno)) ELSE Ok(path)

\* The location a path names for a process with the given root and cwd.
Resolve(root, cwd, path) ==
    IF path.abs THEN root \o path.comps ELSE cwd \o path.comps

\* The directories of the file system (fixed).
Dirs == { << >>, <<"tmp">>, <<"run">>, <<"home">>, <<"jail">> }


(***************************************************************************)
(* State.                                                                  *)
(***************************************************************************)
VARIABLES
    cfg,      \* invocation -> the Daemonize value start consumes
    procs,    \* pid -> process (its position in start, its OS attributes)
    fs,       \* location -> regular file (content, owner, group, mode)
    fs0,      \* fs as it was before start was called (never changes)
    locks,    \* the flock locks held: [loc, ofd] (ofd: an open file description)
    calls,    \* invocation -> the pids that invoked each one-shot closure
    nextPid   \* the pid the next successful fork returns

vars == << cfg, procs, fs, fs0, locks, calls, nextPid >>

(***************************************************************************)
(* Functions as finite maps.                                               *)
(***************************************************************************)
Put(f, k, v) == [x \in DOMAIN f \cup {k} |-> IF x = k THEN v ELSE f[x]]
Drop(f, k) == [x \in DOMAIN f \ {k} |-> f[x]]

(***************************************************************************)
(* Descriptor tables.  A table maps each open descriptor to what it refers *)
(* to; file entries name the location and the open file description (the   *)
(* pid and descriptor of the open call that made it), which fork and dup2  *)
(* share.                                                                  *)
(***************************************************************************)
Tty == [kind |-> "tty", loc |-> << >>, ofd |-> << >>]
Devnull == [kind |-> "devnull", loc |-> << >>, ofd |-> << >>]
FileEntry(loc, ofd) == [kind |-> "file", loc |-> loc, ofd |-> ofd]

\* open, dup: the lowest descriptor not in use.
LowestFree(fds) ==
    CHOOSE n \in 0..Cardinality(DOMAIN fds) :
        /\ n \notin DOMAIN fds
        /\ \A m \in 0..(n - 1) : m \in DOMAIN fds

\* Stdio: Devnull, or RedirectToFile(File) with the File's raw descriptor.
StdioDevnull == [inner |-> "Devnull", raw_fd |-> None]
StdioFile(fd) == [inner |-> "RedirectToFile", raw_fd |-> Some(fd)]

(***************************************************************************)
(* The name service (getpwnam, getgrnam): the answers it may give for a    *)
(* name.  A name it does not know has the single answer None; for a name   *)
(* it knows, two lookups need not give the same id (the directory behind   *)
(* it may change between the calls).                                       *)
(***************************************************************************)
NulNames == {"no\\0body"}
ContainsNul(name) == name \in NulNames

Passwd(name) ==
    CASE name = "nobody" -> {Some(65534), Some(99)}
      [] name = "daemon" -> {Some(1)}
      [] OTHER -> {None}

GroupDb(name) ==
    CASE name = "nobody" -> {Some(65534)}
      [] name = "daemon" -> {Some(1), Some(2)}
      [] OTHER -> {None}

\* ffi::get_uid_by_name, ffi::get_gid_by_name: the answers of one lookup.
get_uid_by_name(name) == Passwd(name)
get_gid_by_name(name) == GroupDb(name)

UserName(n) == [tag |-> "Name", name |-> n, id |-> 0]
UserId(i) == [tag |-> "Id", name |-> "", id |-> i]
GroupName(n) == [tag |-> "Name", name |-> n, id |-> 0]
GroupId(i) == [tag |-> "Id", name |-> "", id |-> i]

(***************************************************************************)
(* Processes.                                                              *)
(***************************************************************************)
Alive(p) == procs[p].status # "exited"
Pids == DOMAIN procs

\* The event a step leaves in the history of the process that took it.
Event(op, ok) == [op |-> op, ok |-> ok]
Log(p, op, ok) == [p EXCEPT !.trace = Append(@, Event(op, ok))]

\* A return of Err(e) that first closes the pid-file descriptor.
ReturnErr_ClosesPidFile(p, kind, errno) ==
    [p EXCEPT !.pc = "done", !.status = "returned",
              !.result = Some(Err(DaemonizeError(kind, errno))),
              !.fds = IF IsSome(p.pid_file_fd)
                      THEN Drop(@, Unwrap(p.pid_file_fd)) ELSE @]

\* A return of Err(e) that first puts the process back where the caller
\* left it: its root and its working directory.
ReturnErr_RollsBack(p, kind, errno) ==
    [p EXCEPT !.pc = "done", !.status = "returned",
              !.result = Some(Err(DaemonizeError(kind, errno))),
              !.root = << >>, !.cwd = << "home" >>]

\* start returns Err(e) in process p.
ReturnErr(p, kind, errno) ==
    [p EXCEPT !.pc = "done", !.status = "returned",
              !.result = Some(Err(DaemonizeError(kind, errno)))]

\* A return of Ok(()) whatever the privileged action gave.
ReturnOk_Unit(p, v) ==
    [p EXCEPT !.pc = "done", !.status = "returned", !.result = Some(Ok(None))]

\* start returns Ok(v) in process p.
ReturnOk(p, v) ==
    [p EXCEPT !.pc = "done", !.status = "returned", !.result = Some(Ok(v))]

\* exit(status): the process ends and all its descriptors are closed.
Exited(p, status) ==
    [p EXCEPT !.pc = "done", !.status = "exited", !.exit_status = Some(status),
              !.fds = [x \in {} |-> Tty]]

\* The open file descriptions some live process of ps still refers to.
LiveOfds(ps) ==
    UNION { { ps[q].fds[d].ofd : d \in DOMAIN ps[q].fds } : q \in DOMAIN ps }

\* Locks that outlive the processes that held them.
LocksLeft_Sticky(ls, ps) == ls

\* A flock lock lasts as long as its open file description.
LocksLeft(ls, ps) == { l \in ls : l.ofd \in LiveOfds(ps) }


(***************************************************************************)
(* System calls, as the outcomes the environment can produce.              *)
(***************************************************************************)
\* The directory a location lies in.
Parent(loc) == SubSeq(loc, 1, Len(loc) - 1)

\* open(path, O_WRONLY | O_CREAT, mode): the errnos it may fail with.  The
\* environment may always refuse access.
OpenErrnos(p, path) ==
    {"EACCES"} \cup
    (IF Parent(Resolve(p.root, p.cwd, path)) \in Dirs THEN {} ELSE {"ENOENT"})

\* The file an open with O_TRUNC leaves at loc: its content is gone.
OpenedFile_Truncating(p, files, loc) ==
    IF loc \in DOMAIN files THEN [files[loc] EXCEPT !.content = << >>]
    ELSE [content |-> << >>, uid |-> p.euid, gid |-> p.egid,
          mode |-> ClearBits(PidFileMode, p.umask, 9)]

\* The file open finds or creates at loc: no O_TRUNC, so a file that exists
\* keeps its content, owner and mode.
OpenedFile(p, files, loc) ==
    IF loc \in DOMAIN files THEN files[loc]
    ELSE [content |-> << >>, uid |-> p.euid, gid |-> p.egid,
          mode |-> ClearBits(PidFileMode, p.umask, 9)]

\* flock(fd, LOCK_EX | LOCK_NB) on description ofd of the file at loc: the
\* errnos it may fail with.  A lock held through another open file
\* description makes it fail at once with EWOULDBLOCK; "" stands for success.
\* A flock that does not see the locks of other descriptions.
FlockOutcomes_Blind(ls, loc, ofd) == {"", "ENOLCK"}

FlockOutcomes(ls, loc, ofd) ==
    IF \E l \in ls : l.loc = loc /\ l.ofd # ofd
    THEN {"EWOULDBLOCK"}
    ELSE {"", "ENOLCK"}

\* setsid(): fails with EPERM for a process group leader.
SetsidOk(pid, p) == p.pgid # pid

\* setgid, setuid: root may take any id, others only the id they have.
SetgidOk(p, g) == p.euid = 0 \/ g = p.egid
SetuidOk(p, u) == p.euid = 0 \/ u = p.euid

\* setgid(g), setuid(u): the errnos they may fail with, "" for success.  A
\* permitted call may still be refused by the kernel (an id that is not valid
\* in the caller's user namespace, a resource limit).
SetgidErrnos(p, g) == IF SetgidOk(p, g) THEN {"", "EINVAL"} ELSE {"EPERM"}
SetuidErrnos(p, u) == IF SetuidOk(p, u) THEN {"", "EAGAIN"} ELSE {"EPERM"}

\* chroot(path): the errno it fails with, "" for success.
ChrootErrno(p, path) ==
    IF p.euid # 0 THEN "EPERM"
    ELSE IF Resolve(p.root, p.cwd, path) \notin Dirs THEN "ENOENT"
    ELSE ""

\* chown(path, uid, gid): the errno it fails with, "" for success.
ChownErrno(p, files, path) ==
    IF Resolve(p.root, p.cwd, path) \notin DOMAIN files THEN "ENOENT"
    ELSE IF p.euid # 0 THEN "EPERM"
    ELSE ""

\* chown: an id of -1 (all bits set) leaves that side as it is.
Chowned(f, uid, gid) ==
    [f EXCEPT !.uid = IF uid = IdMax THEN @ ELSE uid,
              !.gid = IF gid = IdMax THEN @ ELSE gid]

\* write(fd, buf, n) at offset 0: the first n bytes of the file are replaced.
Written(content, buf, n) ==
    SubSeq(buf, 1, n) \o SubSeq(content, n + 1, Len(content))


(***************************************************************************)
(* Daemonize::start: the order of its steps (lib.rs 386-423).  Each step   *)
(* is one action below; a process at step s goes on with After(s).         *)
(***************************************************************************)
StartSequence ==
    << "create_pid_file",     \* maptry!(self.pid_file.clone(), create_pid_file)
       "fork1",               \* perform_fork(Some(self.exit_action))?
       "chdir",               \* set_current_dir(&self.directory)
       "setsid",              \* set_sid()?
       "umask",               \* umask(self.umask)
       "fork2",               \* perform_fork(None)?
       "redirect",            \* redirect_standard_streams(...)?
       "get_user",            \* maptry!(self.user, get_user)
       "get_group",           \* maptry!(self.group, get_group)
       "chown",               \* if self.chown_pid_file { ... }
       "privileged_action",   \* self.privileged_action.call()
       "chroot",              \* maptry!(self.root, change_root)
       "set_group",           \* maptry!(gid, set_group)
       "set_user",            \* maptry!(uid, set_user)
       "write_pid",           \* maptry!(pid_file_fd, write_pid_file)
       "return_ok" >>         \* Ok(privileged_action_result)

\* seq with step s taken out and put back right before step t.
MoveBefore(seq, s, t) ==
    LET rest == SelectSeq(seq, LAMBDA x : x # s)
        k == CHOOSE i \in 1..Len(rest) : rest[i] = t
    IN SubSeq(rest, 1, k - 1) \o << s >> \o SubSeq(rest, k, Len(rest))

\* Orders start does not have: each moves one step of StartSequence.
StartSteps_ForkBeforeLock == MoveBefore(StartSequence, "fork1", "create_pid_file")
StartSteps_ActionAfterDrop == MoveBefore(StartSequence, "privileged_action", "write_pid")
StartSteps_UserBeforeGroup == MoveBefore(StartSequence, "set_user", "set_group")
StartSteps_ChrootBeforeAction == MoveBefore(StartSequence, "chroot", "privileged_action")
StartSteps_WriteBeforeDrop == MoveBefore(StartSequence, "write_pid", "set_group")
StartSteps_ResolveBeforeFork == MoveBefore(StartSequence, "get_user", "fork1")
StartSteps_ChdirBeforeFork == MoveBefore(StartSequence, "chdir", "fork1")
StartSteps_SidAfterFork2 == MoveBefore(StartSequence, "setsid", "redirect")
StartSteps_UmaskBeforeLock == MoveBefore(StartSequence, "umask", "create_pid_file")

StartSteps == StartSequence

After(step) ==
    LET i == CHOOSE k \in 1..Len(StartSteps) : StartSteps[k] = step
    IN StartSteps[i + 1]

\* Process pid is running start and is at step s.
At(pid, s) ==
    /\ pid \in Pids
    /\ procs[pid].status = "running"
    /\ procs[pid].pc = s

\* The process goes on with the step after s.
Goes(me, s) == [me EXCEPT !.pc = After(s)]

Conf(pid) == cfg[procs[pid].inv]

(***************************************************************************)
(* create_pid_file (lib.rs 509-522), called by start when a pid file is    *)
(* configured (lib.rs 387).                                                *)
(***************************************************************************)
CreatePidFile(pid) ==
    /\ At(pid, "create_pid_file")
    /\ LET me == procs[pid]
           c == Conf(pid)
       IN IF ~IsSome(c.pid_file)
          THEN /\ procs' = [procs EXCEPT ![pid] = Goes(me, "create_pid_file")]
               /\ UNCHANGED << fs, locks >>
          ELSE LET path_c == pathbuf_into_cstring(Unwrap(c.pid_file))
               IN IF ~path_c.ok
                  THEN /\ procs' = [procs EXCEPT ![pid] =
                              ReturnErr(me, path_c.val.kind, path_c.val.errno)]
                       /\ UNCHANGED << fs, locks >>
                  ELSE LET loc == Resolve(me.root, me.cwd, path_c.val)
                           fd == LowestFree(me.fds)
                           ofd == << pid, fd >>
                           opened == [Log(me, "open", TRUE) EXCEPT
                                        !.fds = Put(@, fd, FileEntry(loc, ofd))]
                       IN \/ \* open returns -1
                             /\ \E e \in OpenErrnos(me, path_c.val) :
                                  procs' = [procs EXCEPT ![pid] =
                                     ReturnErr(Log(me, "open", FALSE),
                                               "OpenPidfile", NoErrno)]
                             /\ UNCHANGED << fs, locks >>
                          \/ \* open succeeds, then flock
                             /\ Parent(loc) \in Dirs
                             /\ fs' = Put(fs, loc, OpenedFile(me, fs, loc))
                             /\ \E e \in FlockOutcomes(locks, loc, ofd) :
                                  IF e = ""
                                  THEN /\ locks' = locks \cup
                                                   {[loc |-> loc, ofd |-> ofd]}
                                       /\ procs' = [procs EXCEPT ![pid] =
                                            Goes([Log(opened, "flock", TRUE)
                                                    EXCEPT !.pid_file_fd = Some(fd)],
                                                 "create_pid_file")]
                                  ELSE /\ locks' = locks
                                       /\ procs' = [procs EXCEPT ![pid] =
                                            ReturnErr(Log(opened, "flock", FALSE),
                                                      "LockPidfile", e)]
    /\ UNCHANGED << cfg, fs0, calls, nextPid >>

\* A child that does not inherit the pid-file descriptor.
Child_WithoutPidFile(me, pid, role) ==
    [me EXCEPT !.ppid = pid, !.role = role, !.pid_file_fd = None,
               !.fds = IF IsSome(me.pid_file_fd)
                       THEN Drop(@, Unwrap(me.pid_file_fd)) ELSE @]

(***************************************************************************)
(* perform_fork (lib.rs 428-440).  fork() fails, or makes a child that is  *)
(* a copy of the caller (descriptors and their open file descriptions      *)
(* shared) and goes on in start, while the parent goes on to the exit      *)
(* action (when it was given one) and to exit(0).                          *)
(***************************************************************************)
Child(me, pid, role) ==
    [me EXCEPT !.ppid = pid, !.role = role]

\* perform_fork without the exit(0): the parent too goes on in start.
perform_fork_ParentGoesOn(pid, step, role, exit_action) ==
    /\ At(pid, step)
    /\ LET me == procs[pid]
           forked == Log(me, step, TRUE)
       IN procs' = Put([procs EXCEPT ![pid] = Goes(forked, step)],
                       nextPid, Goes(Child(forked, pid, role), step))
    /\ nextPid' = nextPid + 1
    /\ UNCHANGED << cfg, fs0, fs, locks, calls >>

perform_fork(pid, step, role, exit_action) ==
    /\ At(pid, step)
    /\ LET me == procs[pid]
       IN \/ \* pid < 0
             /\ procs' = [procs EXCEPT ![pid] =
                             ReturnErr(Log(me, step, FALSE), "Fork", NoErrno)]
             /\ nextPid' = nextPid
          \/ \* pid == 0 in the child, pid > 0 in the parent
             /\ LET forked == Log(me, step, TRUE)
                IN procs' = Put([procs EXCEPT ![pid] =
                                   [forked EXCEPT !.pc =
                                      IF exit_action THEN "exit_action" ELSE "exit"]],
                                nextPid,
                                Goes(Child(forked, pid, role), step))
             /\ nextPid' = nextPid + 1
    /\ UNCHANGED << cfg, fs0, fs, locks, calls >>

\* start, lib.rs 389: perform_fork(Some(self.exit_action))?
Fork1(pid) == perform_fork(pid, "fork1", "leader", TRUE)

\* Fork #2 handed an exit action as fork #1 is.
Fork2_WithExitAction(pid) == perform_fork(pid, "fork2", "daemon", TRUE)

\* start, lib.rs 395: perform_fork(None)?
Fork2(pid) == perform_fork(pid, "fork2", "daemon", FALSE)

\* perform_fork, lib.rs 435-437: exit_action.call() in the parent.
ExitAction(pid) ==
    /\ At(pid, "exit_action")
    /\ calls' = [calls EXCEPT ![procs[pid].inv].exit_action = Append(@, pid)]
    /\ procs' = [procs EXCEPT ![pid] =
                    [Log(procs[pid], "exit_action", TRUE) EXCEPT !.pc = "exit"]]
    /\ UNCHANGED << cfg, fs0, fs, locks, nextPid >>

\* An exit of the original process that waits until the pid file holds the
\* pid of the daemon.
ParentExit_AfterPidWrite(pid) ==
    /\ At(pid, "exit")
    /\ procs[pid].role = "original" =>
          \E d \in Pids, loc \in DOMAIN fs :
             procs[d].role = "daemon" /\ fs[loc].content = FormatPid(d)
    /\ procs' = [procs EXCEPT ![pid] = Exited(procs[pid], 0)]
    /\ locks' = LocksLeft(locks, procs')
    /\ UNCHANGED << cfg, fs0, fs, calls, nextPid >>

\* A parent that waits for its child to end before it exits.
ParentExit_AfterChild(pid) ==
    /\ At(pid, "exit")
    /\ \A q \in Pids : procs[q].ppid = pid => procs[q].status = "exited"
    /\ procs' = [procs EXCEPT ![pid] = Exited(procs[pid], 0)]
    /\ locks' = LocksLeft(locks, procs')
    /\ UNCHANGED << cfg, fs0, fs, calls, nextPid >>

\* An exit of the parent that reports failure.
ParentExit_Failing(pid) ==
    /\ At(pid, "exit")
    /\ procs' = [procs EXCEPT ![pid] = Exited(procs[pid], 1)]
    /\ locks' = LocksLeft(locks, procs')
    /\ UNCHANGED << cfg, fs0, fs, calls, nextPid >>

\* perform_fork, lib.rs 438: exit(0) in the parent.
ParentExit(pid) ==
    /\ At(pid, "exit")
    /\ procs' = [procs EXCEPT ![pid] = Exited(procs[pid], 0)]
    /\ locks' = LocksLeft(locks, procs')
    /\ UNCHANGED << cfg, fs0, fs, calls, nextPid >>


(***************************************************************************)
(* start, lib.rs 391-393: the child of fork #1.                            *)
(***************************************************************************)
\* set_current_dir: the errnos it may fail with.
ChdirErrnos(p, path) ==
    {"EACCES"} \cup
    (IF Resolve(p.root, p.cwd, path) \in Dirs THEN {} ELSE {"ENOENT"})

\* set_current_dir(&self.directory).map_err(|_| ChangeDirectory)?
Chdir(pid) ==
    /\ At(pid, "chdir")
    /\ LET me == procs[pid]
           dir == Conf(pid).directory
       IN \/ /\ \E e \in ChdirErrnos(me, dir) :
                  procs' = [procs EXCEPT ![pid] =
                     ReturnErr(Log(me, "chdir", FALSE), "ChangeDirectory", NoErrno)]
          \/ /\ Resolve(me.root, me.cwd, dir) \in Dirs
             /\ procs' = [procs EXCEPT ![pid] =
                   Goes([Log(me, "chdir", TRUE) EXCEPT
                            !.cwd = Resolve(me.root, me.cwd, dir)], "chdir")]
    /\ UNCHANGED << cfg, fs0, fs, locks, calls, nextPid >>

\* set_sid (lib.rs 442-444): setsid() makes the caller the leader of a new
\* session and process group, without a controlling terminal.
SetSid(pid) ==
    /\ At(pid, "setsid")
    /\ LET me == procs[pid]
       IN IF SetsidOk(pid, me)
          THEN procs' = [procs EXCEPT ![pid] =
                  Goes([Log(me, "setsid", TRUE) EXCEPT
                           !.sid = pid, !.pgid = pid, !.ctty = FALSE], "setsid")]
          ELSE procs' = [procs EXCEPT ![pid] =
                  ReturnErr(Log(me, "setsid", FALSE), "DetachSession", "EPERM")]
    /\ UNCHANGED << cfg, fs0, fs, locks, calls, nextPid >>

\* A start that leaves the caller's mask in place.
Umask_Skipped(pid) ==
    /\ At(pid, "umask")
    /\ procs' = [procs EXCEPT ![pid] = Goes(Log(procs[pid], "umask", TRUE), "umask")]
    /\ UNCHANGED << cfg, fs0, fs, locks, calls, nextPid >>

\* umask(self.umask): cannot fail.
Umask(pid) ==
    /\ At(pid, "umask")
    /\ procs' = [procs EXCEPT ![pid] =
          Goes([Log(procs[pid], "umask", TRUE) EXCEPT !.umask = Conf(pid).umask],
               "umask")]
    /\ UNCHANGED << cfg, fs0, fs, locks, calls, nextPid >>

(***************************************************************************)
(* redirect_standard_streams (lib.rs 446-473).  A state of the redirection *)
(* is the descriptor table and the errno of the first failed call ("" when *)
(* none failed).                                                           *)
(***************************************************************************)
\* A File is closed when its Stdio is dropped.
DropStdio(fds, stdio) ==
    IF IsSome(stdio.raw_fd) /\ Unwrap(stdio.raw_fd) \in DOMAIN fds
    THEN Drop(fds, Unwrap(stdio.raw_fd))
    ELSE fds

\* The closure process_stdio: close(fd), then dup2 of the null device or of
\* the File onto fd; the Stdio is dropped on every path.
process_stdio(st, devnull_fd, fd, stdio) ==
    IF st.errno # "" THEN [st EXCEPT !.fds = DropStdio(@, stdio)]
    ELSE IF fd \notin DOMAIN st.fds
    THEN [fds |-> DropStdio(st.fds, stdio), errno |-> "EBADF"]
    ELSE LET closed == Drop(st.fds, fd)
             src == IF stdio.inner = "Devnull" THEN devnull_fd
                    ELSE Unwrap(stdio.raw_fd)
         IN IF src \notin DOMAIN closed
            THEN [fds |-> DropStdio(closed, stdio), errno |-> "EBADF"]
            ELSE [fds |-> DropStdio(Put(closed, fd, closed[src]), stdio),
                  errno |-> ""]

\* open("/dev/null", O_RDWR): the errnos it may fail with.
DevnullErrnos == {"EMFILE"}

redirect_standard_streams(fds, stdin, stdout, stderr, open_errno) ==
    IF open_errno # ""
    THEN [fds |-> DropStdio(DropStdio(DropStdio(fds, stdin), stdout), stderr),
          errno |-> open_errno]
    ELSE LET devnull_fd == LowestFree(fds)
             s0 == [fds |-> Put(fds, devnull_fd, Devnull), errno |-> ""]
             s1 == process_stdio(s0, devnull_fd, STDIN_FILENO, stdin)
             s2 == process_stdio(s1, devnull_fd, STDOUT_FILENO, stdout)
             s3 == process_stdio(s2, devnull_fd, STDERR_FILENO, stderr)
         IN IF s3.errno # "" THEN s3
            ELSE IF devnull_fd \notin DOMAIN s3.fds
            THEN [s3 EXCEPT !.errno = "EBADF"]
            ELSE [s3 EXCEPT !.fds = Drop(@, devnull_fd)]

\* start, lib.rs 397.
Redirect(pid) ==
    /\ At(pid, "redirect")
    /\ LET me == procs[pid]
           c == Conf(pid)
       IN \E open_errno \in {""} \cup DevnullErrnos :
            LET r == redirect_standard_streams(me.fds, c.stdin, c.stdout,
                                               c.stderr, open_errno)
            IN procs' = [procs EXCEPT ![pid] =
                  IF r.errno = ""
                  THEN Goes([Log(me, "redirect", TRUE) EXCEPT !.fds = r.fds],
                            "redirect")
                  ELSE ReturnErr([Log(me, "redirect", FALSE) EXCEPT !.fds = r.fds],
                                 "RedirectStreams", r.errno)]
    /\ UNCHANGED << cfg, fs0, fs, locks, calls, nextPid >>


\* A get_user that asks the name service before it looks for a NUL byte.
get_user_AsksFirst(user) ==
    IF user.tag = "Id" THEN {Ok(user.id)}
    ELSE { IF IsSome(a) THEN Ok(Unwrap(a))
           ELSE Err(DaemonizeError("UserNotFound", NoErrno)) :
           a \in get_uid_by_name(user.name) }

(***************************************************************************)
(* get_user (lib.rs 492-503) and get_group (lib.rs 475-486): the results   *)
(* one call may give.                                                      *)
(***************************************************************************)
get_user(user) ==
    IF user.tag = "Id" THEN {Ok(user.id)}
    ELSE IF ContainsNul(user.name)
    THEN {Err(DaemonizeError("UserContainsNul", NoErrno))}
    ELSE { IF IsSome(a) THEN Ok(Unwrap(a))
           ELSE Err(DaemonizeError("UserNotFound", NoErrno)) :
           a \in get_uid_by_name(user.name) }

get_group(group) ==
    IF group.tag = "Id" THEN {Ok(group.id)}
    ELSE IF ContainsNul(group.name)
    THEN {Err(DaemonizeError("GroupContainsNul", NoErrno))}
    ELSE { IF IsSome(a) THEN Ok(Unwrap(a))
           ELSE Err(DaemonizeError("GroupNotFound", NoErrno)) :
           a \in get_gid_by_name(group.name) }

\* start, lib.rs 399: let uid = maptry!(self.user, get_user)
GetUser(pid) ==
    /\ At(pid, "get_user")
    /\ LET me == procs[pid]
           c == Conf(pid)
       IN IF ~IsSome(c.user)
          THEN procs' = [procs EXCEPT ![pid] = Goes(me, "get_user")]
          ELSE \E r \in get_user(Unwrap(c.user)) :
                 procs' = [procs EXCEPT ![pid] =
                    IF r.ok
                    THEN Goes([Log(me, "get_user", TRUE) EXCEPT !.uid = Some(r.val)],
                              "get_user")
                    ELSE ReturnErr(Log(me, "get_user", FALSE),
                                   r.val.kind, r.val.errno)]
    /\ UNCHANGED << cfg, fs0, fs, locks, calls, nextPid >>

\* start, lib.rs 400: let gid = maptry!(self.group, get_group)
GetGroup(pid) ==
    /\ At(pid, "get_group")
    /\ LET me == procs[pid]
           c == Conf(pid)
       IN IF ~IsSome(c.group)
          THEN procs' = [procs EXCEPT ![pid] = Goes(me, "get_group")]
          ELSE \E r \in get_group(Unwrap(c.group)) :
                 procs' = [procs EXCEPT ![pid] =
                    IF r.ok
                    THEN Goes([Log(me, "get_group", TRUE) EXCEPT !.gid = Some(r.val)],
                              "get_group")
                    ELSE ReturnErr(Log(me, "get_group", FALSE),
                                   r.val.kind, r.val.errno)]
    /\ UNCHANGED << cfg, fs0, fs, locks, calls, nextPid >>

\* A match that chowns only when both identities are configured.
ChownArgs_BothRequired(pid_file, uid, gid) ==
    IF IsSome(pid_file) /\ IsSome(uid) /\ IsSome(gid)
    THEN Some([path |-> Unwrap(pid_file), uid |-> Unwrap(uid), gid |-> Unwrap(gid)])
    ELSE None

(***************************************************************************)
(* The pid-file chown (lib.rs 402-412, chown_pid_file 524-531).            *)
(***************************************************************************)
\* The match of lib.rs 403-409: the arguments of the chown, if any.
ChownArgs(pid_file, uid, gid) ==
    IF IsSome(pid_file) /\ IsSome(uid) /\ IsSome(gid)
    THEN Some([path |-> Unwrap(pid_file), uid |-> Unwrap(uid), gid |-> Unwrap(gid)])
    ELSE IF IsSome(pid_file) /\ ~IsSome(uid) /\ IsSome(gid)
    THEN Some([path |-> Unwrap(pid_file), uid |-> IdMax - 1, gid |-> Unwrap(gid)])
    ELSE IF IsSome(pid_file) /\ IsSome(uid) /\ ~IsSome(gid)
    THEN Some([path |-> Unwrap(pid_file), uid |-> Unwrap(uid), gid |-> IdMax - 1])
    ELSE None

ChownPidFile(pid) ==
    /\ At(pid, "chown")
    /\ LET me == procs[pid]
           c == Conf(pid)
           args == IF c.chown_pid_file THEN ChownArgs(c.pid_file, me.uid, me.gid)
                   ELSE None
       IN IF ~IsSome(args)
          THEN /\ procs' = [procs EXCEPT ![pid] = Goes(me, "chown")]
               /\ fs' = fs
          ELSE LET a == Unwrap(args)
                   path_c == pathbuf_into_cstring(a.path)
                   errno == ChownErrno(me, fs, a.path)
                   loc == Resolve(me.root, me.cwd, a.path)
               IN IF ~path_c.ok
                  THEN /\ procs' = [procs EXCEPT ![pid] =
                              ReturnErr(me, path_c.val.kind, path_c.val.errno)]
                       /\ fs' = fs
                  ELSE IF errno # ""
                  THEN /\ procs' = [procs EXCEPT ![pid] =
                              ReturnErr(Log(me, "chown", FALSE), "ChownPidfile", errno)]
                       /\ fs' = fs
                  ELSE /\ procs' = [procs EXCEPT ![pid] =
                              Goes(Log(me, "chown", TRUE), "chown")]
                       /\ fs' = [fs EXCEPT ![loc] = Chowned(@, a.uid, a.gid)]
    /\ UNCHANGED << cfg, fs0, locks, calls, nextPid >>

\* start, lib.rs 414: let privileged_action_result = self.privileged_action.call()
PrivilegedAction(pid) ==
    /\ At(pid, "privileged_action")
    /\ calls' = [calls EXCEPT ![procs[pid].inv].privileged_action = Append(@, pid)]
    /\ procs' = [procs EXCEPT ![pid] =
          Goes([Log(procs[pid], "privileged_action", TRUE) EXCEPT
                   !.privileged_action_result = Some(Conf(pid).privileged_action)],
               "privileged_action")]
    /\ UNCHANGED << cfg, fs0, fs, locks, nextPid >>

\* change_root (lib.rs 548-556), called at lib.rs 416 when a root is configured.
ChangeRoot(pid) ==
    /\ At(pid, "chroot")
    /\ LET me == procs[pid]
           c == Conf(pid)
       IN IF ~IsSome(c.root)
          THEN procs' = [procs EXCEPT ![pid] = Goes(me, "chroot")]
          ELSE LET path_c == pathbuf_into_cstring(Unwrap(c.root))
                   errno == ChrootErrno(me, Unwrap(c.root))
               IN procs' = [procs EXCEPT ![pid] =
                     IF ~path_c.ok
                     THEN ReturnErr(me, path_c.val.kind, path_c.val.errno)
                     ELSE IF errno # ""
                     THEN ReturnErr(Log(me, "chroot", FALSE), "Chroot", errno)
                     ELSE Goes([Log(me, "chroot", TRUE) EXCEPT
                                  !.root = Resolve(me.root, me.cwd, Unwrap(c.root))],
                               "chroot")]
    /\ UNCHANGED << cfg, fs0, fs, locks, calls, nextPid >>

\* set_group (lib.rs 488-490), called at lib.rs 418 when a gid was resolved.
SetGroup(pid) ==
    /\ At(pid, "set_group")
    /\ LET me == procs[pid]
       IN IF ~IsSome(me.gid)
          THEN procs' = [procs EXCEPT ![pid] = Goes(me, "set_group")]
          ELSE \E e \in SetgidErrnos(me, Unwrap(me.gid)) :
                 procs' = [procs EXCEPT ![pid] =
                    IF e = ""
                    THEN Goes([Log(me, "setgid", TRUE) EXCEPT
                                 !.egid = Unwrap(me.gid)], "set_group")
                    ELSE ReturnErr(Log(me, "setgid", FALSE), "SetGroup", e)]
    /\ UNCHANGED << cfg, fs0, fs, locks, calls, nextPid >>

\* A drop of the user that asks the name service again instead of using the
\* uid resolved before.
SetUser_LooksUpAgain(pid) ==
    /\ At(pid, "set_user")
    /\ LET me == procs[pid]
           c == Conf(pid)
       IN IF ~IsSome(c.user)
          THEN procs' = [procs EXCEPT ![pid] = Goes(me, "set_user")]
          ELSE \E r \in get_user(Unwrap(c.user)) :
                 procs' = [procs EXCEPT ![pid] =
                    IF r.ok /\ SetuidOk(me, r.val)
                    THEN Goes([Log(me, "setuid", TRUE) EXCEPT !.euid = r.val],
                              "set_user")
                    ELSE ReturnErr(Log(me, "setuid", FALSE), "SetUser", "EPERM")]
    /\ UNCHANGED << cfg, fs0, fs, locks, calls, nextPid >>

\* set_user (lib.rs 505-507), called at lib.rs 419 when a uid was resolved.
SetUser(pid) ==
    /\ At(pid, "set_user")
    /\ LET me == procs[pid]
       IN IF ~IsSome(me.uid)
          THEN procs' = [procs EXCEPT ![pid] = Goes(me, "set_user")]
          ELSE \E e \in SetuidErrnos(me, Unwrap(me.uid)) :
                 procs' = [procs EXCEPT ![pid] =
                    IF e = ""
                    THEN Goes([Log(me, "setuid", TRUE) EXCEPT
                                 !.euid = Unwrap(me.uid)], "set_user")
                    ELSE ReturnErr(Log(me, "setuid", FALSE), "SetUser", e)]
    /\ UNCHANGED << cfg, fs0, fs, locks, calls, nextPid >>


(***************************************************************************)
(* write_pid_file (lib.rs 533-546), called at lib.rs 421 when the pid file *)
(* was opened.                                                             *)
(***************************************************************************)
\* getpid(): the pid of the calling process.
getpid(pid) == pid

\* No ftruncate: the old content stays.
Truncated_Not(content) == content

\* ftruncate(fd, 0).
Truncated(content) == << >>

\* write(fd, pid_c, pid_length) returns -1 or the number of bytes written.
WriteReturns(buf) == -1 .. Len(buf)

WritePidFile(pid) ==
    /\ At(pid, "write_pid")
    /\ LET me == procs[pid]
       IN IF ~IsSome(me.pid_file_fd)
          THEN /\ procs' = [procs EXCEPT ![pid] = Goes(me, "write_pid")]
               /\ fs' = fs
          ELSE LET fd == Unwrap(me.pid_file_fd)
                   loc == me.fds[fd].loc
                   pid_buf == FormatPid(getpid(pid))
                   pid_length == Len(pid_buf)
               IN \/ \* -1 == ftruncate(fd, 0)
                     /\ procs' = [procs EXCEPT ![pid] =
                           ReturnErr(Log(me, "ftruncate", FALSE), "WritePid", NoErrno)]
                     /\ fs' = fs
                  \/ \E n \in WriteReturns(pid_buf) :
                       LET written == IF n < 0 THEN 0 ELSE n
                           done == Log(Log(me, "ftruncate", TRUE), "write",
                                       n >= pid_length)
                       IN /\ fs' = [fs EXCEPT ![loc].content =
                                       Written(Truncated(@), pid_buf, written)]
                          /\ procs' = [procs EXCEPT ![pid] =
                                IF n < pid_length
                                THEN ReturnErr(done, "WritePid", NoErrno)
                                ELSE Goes(done, "write_pid")]
    /\ UNCHANGED << cfg, fs0, locks, calls, nextPid >>

\* start, lib.rs 423: Ok(privileged_action_result)
ReturnOkStep(pid) ==
    /\ At(pid, "return_ok")
    /\ procs' = [procs EXCEPT ![pid] =
          ReturnOk(procs[pid], procs[pid].privileged_action_result)]
    /\ UNCHANGED << cfg, fs0, fs, locks, calls, nextPid >>

(***************************************************************************)
(* The caller.  A process in which start has returned goes on with the     *)
(* caller's code and ends with a status of the caller's choice.            *)
(***************************************************************************)
CallerExit(pid) ==
    /\ pid \in Pids
    /\ procs[pid].status = "returned"
    /\ \E status \in {0, 1} :
         procs' = [procs EXCEPT ![pid] = Exited(procs[pid], status)]
    /\ locks' = LocksLeft(locks, procs')
    /\ UNCHANGED << cfg, fs0, fs, calls, nextPid >>

\* std::fs::File::create: open(path, O_WRONLY | O_CREAT | O_TRUNC, 0o666).
FileCreateMode == 438
TestFile == RelPath(<< "test" >>)
TestContent == << "t", "e", "s", "t" >>

\* The caller's code after start().unwrap() (examples/test_chdir.rs 18-21):
\* it creates the file "test" in its working directory and writes to it.
CallerCreates(pid) ==
    /\ pid \in Pids
    /\ procs[pid].status = "returned"
    /\ Unwrap(procs[pid].result).ok
    /\ LET me == procs[pid]
           loc == Resolve(me.root, me.cwd, TestFile)
       IN /\ loc \notin DOMAIN fs
          /\ fs' = Put(fs, loc, [content |-> TestContent, uid |-> me.euid,
                                 gid |-> me.egid,
                                 mode |-> ClearBits(FileCreateMode, me.umask, 9)])
    /\ UNCHANGED << cfg, procs, fs0, locks, calls, nextPid >>

\* The invocations whose callers try again; the others call start once.
Retrying == {"A"}

\* A caller in which start has returned an error builds the same Daemonize
\* again and calls start once more.  The locals of the earlier call are
\* gone; what the earlier call did to the process stays, the descriptors it
\* left open included.
StartAgain(pid) ==
    /\ pid \in Pids
    /\ procs[pid].status = "returned"
    /\ ~Unwrap(procs[pid].result).ok
    /\ procs[pid].inv \in Retrying
    /\ Len(SelectSeq(procs[pid].trace, LAMBDA e : e.op = "start")) < MaxRestarts
    /\ procs' = [procs EXCEPT ![pid] =
          [Log(procs[pid], "start", TRUE) EXCEPT
              !.pc = StartSteps[1], !.status = "running", !.result = None,
              !.pid_file_fd = None, !.uid = None, !.gid = None,
              !.privileged_action_result = None]]
    /\ UNCHANGED << cfg, fs0, fs, locks, calls, nextPid >>

(***************************************************************************)
(* Initial states.                                                         *)
(***************************************************************************)
PidLoc == << "run", "d.pid" >>
OutLoc == << "tmp", "out" >>
ErrLoc == << "tmp", "err" >>

\* What a pid file left by an earlier daemon may hold.
StaleContents == { [i \in 1..n |-> "7"] : n \in {1, MaxStaleLen} }

StaleFile(content) == [content |-> content, uid |-> 0, gid |-> 0, mode |-> 420]

InitialFs ==
    { [l \in {} |-> StaleFile(<< >>)] } \cup
    { [l \in {PidLoc} |-> StaleFile(content)] : content \in StaleContents }

\* The descriptors of a process started from a terminal with the standard
\* descriptors in closed not open (as by "prog <&-"), after the caller has
\* opened the files it hands to stdout(..) and stderr(..).
CallerFds(pid, closed, out, err) ==
    LET std == [d \in {STDIN_FILENO, STDOUT_FILENO, STDERR_FILENO} \ closed |-> Tty]
        o == IF out THEN Put(std, LowestFree(std),
                             FileEntry(OutLoc, << pid, LowestFree(std) >>))
             ELSE std
    IN IF err THEN Put(o, LowestFree(o), FileEntry(ErrLoc, << pid, LowestFree(o) >>))
       ELSE o

\* The descriptor CallerFds gave the file at loc.
FdOf(fds, loc) == CHOOSE d \in DOMAIN fds : fds[d].kind = "file" /\ fds[d].loc = loc

\* The original process: started from a shell, leader of its own process
\* group, in the shell's session, on the shell's terminal.
OriginalProcess(pid, inv, id, fds) ==
    [inv |-> inv, role |-> "original", ppid |-> 1, pc |-> StartSteps[1],
     status |-> "running", result |-> None, exit_status |-> None,
     fds |-> fds, cwd |-> << "home" >>, root |-> << >>, umask |-> 18,
     pgid |-> pid, sid |-> 1, ctty |-> TRUE, euid |-> id, egid |-> id,
     pid_file_fd |-> None, uid |-> None, gid |-> None,
     privileged_action_result |-> None, trace |-> << >>]

\* Daemonize::new() (lib.rs 285-300) followed by the builder calls.
Daemonize(pid_file, chown, user, group, root, directory, mask, stdout, stderr) ==
    [directory |-> directory, pid_file |-> pid_file, chown_pid_file |-> chown,
     user |-> user, group |-> group, umask |-> mask, root |-> root,
     privileged_action |-> "socket", stdin |-> StdioDevnull,
     stdout |-> stdout, stderr |-> stderr]

PidFiles ==
    { None, Some(AbsPath(PidLoc)), Some(NulPath(PidLoc)) }
Users ==
    { None, Some(UserId(1000)), Some(UserName("nobody")), Some(UserName("ghost")),
      Some(UserName("no\\0body")) }
Groups ==
    { None, Some(GroupId(1000)), Some(GroupName("daemon")), Some(GroupName("ghost")),
      Some(GroupName("no\\0body")) }
Roots == { None, Some(AbsPath(<< "jail" >>)) }
\* Working directory, umask and stream files: the defaults, or all set; and
\* the standard descriptors that are closed when the caller starts.
Surroundings ==
    { [directory |-> AbsPath(<< >>), umask |-> DefaultUmask, files |-> FALSE,
       closed |-> {}],
      [directory |-> AbsPath(<< "tmp" >>), umask |-> 146, files |-> TRUE,
       closed |-> {}],
      [directory |-> AbsPath(<< >>), umask |-> DefaultUmask, files |-> TRUE,
       closed |-> {STDIN_FILENO}] }

Noted == [exit_action |-> << >>, privileged_action |-> << >>]

\* The configured user or group is a name with a NUL byte in it.
HasNul(x) == IsSome(x) /\ Unwrap(x).tag = "Name" /\ ContainsNul(Unwrap(x).name)

\* One invocation, A, of any configuration, by root or by an ordinary user.
\* A file is at the pid-file path beforehand only when a pid file is
\* configured, and is a short one only when no user, group, root or chown is
\* configured; a caller with a standard descriptor closed configures no
\* user, group, root or chown, and a name with a NUL byte is configured by
\* root, with no root directory and no stream files.
Init ==
    /\ \E pf \in PidFiles, chown \in BOOLEAN, u \in Users, g \in Groups,
          r \in Roots, s \in Surroundings, id \in {0, 1000} :
         LET fds == CallerFds(PidBase, s.closed, s.files, s.files)
         IN /\ s.closed # {} => (u = None /\ g = None /\ r = None /\ ~chown)
            /\ (HasNul(u) \/ HasNul(g)) => (~s.files /\ r = None /\ id = 0)
            /\ cfg = [i \in {"A"} |->
                        Daemonize(pf, chown, u, g, r, s.directory, s.umask,
                                  IF s.files THEN StdioFile(FdOf(fds, OutLoc))
                                  ELSE StdioDevnull,
                                  IF s.files THEN StdioFile(FdOf(fds, ErrLoc))
                                  ELSE StdioDevnull)]
            /\ procs = [p \in {PidBase} |-> OriginalProcess(PidBase, "A", id, fds)]
            /\ fs \in InitialFs
            /\ ~IsSome(pf) => fs = [l \in {} |-> StaleFile(<< >>)]
            /\ (\E l \in DOMAIN fs : Len(fs[l].content) < MaxStaleLen) =>
                  (u = None /\ g = None /\ r = None /\ ~chown)
    /\ fs0 = fs
    /\ locks = {}
    /\ calls = [i \in {"A"} |-> Noted]
    /\ nextPid = PidBase + 1

\* Two invocations, A and B, by root, of the default configuration with the
\* same pid file.
InitTwo ==
    /\ cfg = [i \in {"A", "B"} |->
                Daemonize(Some(AbsPath(PidLoc)), FALSE, None, None, None,
                          AbsPath(<< >>), DefaultUmask, StdioDevnull, StdioDevnull)]
    /\ procs = [p \in {PidBase, PidBase + 1} |->
                  OriginalProcess(p, IF p = PidBase THEN "A" ELSE "B", 0,
                                  CallerFds(p, {}, FALSE, FALSE))]
    /\ fs \in InitialFs
    /\ fs0 = fs
    /\ locks = {}
    /\ calls = [i \in {"A", "B"} |-> Noted]
    /\ nextPid = PidBase + 2

\* One invocation with a pid file and no file there beforehand, the default
\* directory, umask and streams, by root or by an ordinary user.
InitFair ==
    /\ \E chown \in BOOLEAN, u \in {None, Some(UserName("nobody"))},
          g \in {None, Some(GroupName("ghost"))}, r \in Roots, id \in {0, 1000} :
         /\ cfg = [i \in {"A"} |->
                     Daemonize(Some(AbsPath(PidLoc)), chown, u, g, r,
                               AbsPath(<< >>), DefaultUmask,
                               StdioDevnull, StdioDevnull)]
         /\ procs = [p \in {PidBase} |->
                       OriginalProcess(PidBase, "A", id,
                                       CallerFds(PidBase, {}, FALSE, FALSE))]
    /\ fs = [l \in {} |-> StaleFile(<< >>)]
    /\ fs0 = fs
    /\ locks = {}
    /\ calls = [i \in {"A"} |-> Noted]
    /\ nextPid = PidBase + 1

Next ==
    \/ \E pid \in Pids : CreatePidFile(pid)
    \/ \E pid \in Pids : Fork1(pid)
    \/ \E pid \in Pids : ExitAction(pid)
    \/ \E pid \in Pids : ParentExit(pid)
    \/ \E pid \in Pids : Chdir(pid)
    \/ \E pid \in Pids : SetSid(pid)
    \/ \E pid \in Pids : Umask(pid)
    \/ \E pid \in Pids : Fork2(pid)
    \/ \E pid \in Pids : Redirect(pid)
    \/ \E pid \in Pids : GetUser(pid)
    \/ \E pid \in Pids : GetGroup(pid)
    \/ \E pid \in Pids : ChownPidFile(pid)
    \/ \E pid \in Pids : PrivilegedAction(pid)
    \/ \E pid \in Pids : ChangeRoot(pid)
    \/ \E pid \in Pids : SetGroup(pid)
    \/ \E pid \in Pids : SetUser(pid)
    \/ \E pid \in Pids : WritePidFile(pid)
    \/ \E pid \in Pids : ReturnOkStep(pid)
    \/ \E pid \in Pids : CallerCreates(pid)
    \/ \E pid \in Pids : CallerExit(pid)

Spec == Init /\ [][Next]_vars

SpecTwo == InitTwo /\ [][Next]_vars

\* One invocation of the default configuration, without a pid file, by a
\* caller started with some of the standard descriptors closed; the files
\* it hands to stdout(..) and stderr(..), if any, then get the lowest free
\* descriptors.
InitClosed ==
    /\ \E closed \in (SUBSET {STDIN_FILENO, STDOUT_FILENO, STDERR_FILENO}) \ {{}},
          files \in BOOLEAN, id \in {0, 1000} :
         LET fds == CallerFds(PidBase, closed, files, files)
         IN /\ cfg = [i \in {"A"} |->
                        Daemonize(None, FALSE, None, None, None, AbsPath(<< >>),
                                  DefaultUmask,
                                  IF files THEN StdioFile(FdOf(fds, OutLoc))
                                  ELSE StdioDevnull,
                                  IF files THEN StdioFile(FdOf(fds, ErrLoc))
                                  ELSE StdioDevnull)]
            /\ procs = [p \in {PidBase} |-> OriginalProcess(PidBase, "A", id, fds)]
    /\ fs = [l \in {} |-> StaleFile(<< >>)]
    /\ fs0 = fs
    /\ locks = {}
    /\ calls = [i \in {"A"} |-> Noted]
    /\ nextPid = PidBase + 1

SpecClosed == InitClosed /\ [][Next]_vars

\* One invocation whose pid file is given by a relative path, from a caller
\* in /home, with a working directory that is /, /tmp or the caller's own;
\* another file of the same name may lie in /tmp.
RelPidFile == RelPath(<< "d.pid" >>)

InitRel ==
    /\ \E chown \in BOOLEAN, u \in {None, Some(UserName("nobody"))},
          g \in {None, Some(GroupName("daemon"))}, id \in {0, 1000},
          dir \in {<< >>, << "tmp" >>, << "home" >>} :
         /\ cfg = [i \in {"A"} |->
                     Daemonize(Some(RelPidFile), chown, u, g, None,
                               AbsPath(dir), DefaultUmask,
                               StdioDevnull, StdioDevnull)]
         /\ procs = [p \in {PidBase} |->
                       OriginalProcess(PidBase, "A", id,
                                       CallerFds(PidBase, {}, FALSE, FALSE))]
    /\ fs \in { [l \in {} |-> StaleFile(<< >>)],
                [l \in {<< "tmp", "d.pid" >>} |-> StaleFile(<< "7" >>)] }
    /\ fs0 = fs
    /\ locks = {}
    /\ calls = [i \in {"A"} |-> Noted]
    /\ nextPid = PidBase + 1

SpecRel == InitRel /\ [][Next]_vars

\* The steps of a system whose callers try start again after an error.
NextAgain ==
    \/ Next
    \/ \E pid \in Pids : StartAgain(pid)

\* Two invocations on one pid file that does not exist yet, with callers
\* that try again.
InitAgain == InitTwo /\ fs = [l \in {} |-> StaleFile(<< >>)]

SpecAgain == InitAgain /\ [][NextAgain]_vars

\* A step of start, or of the parent's way out of perform_fork, in process
\* pid: everything but the caller's own code after start has returned.
StartStep(pid) ==
    \/ CreatePidFile(pid)
    \/ Fork1(pid)
    \/ ExitAction(pid)
    \/ ParentExit(pid)
    \/ Chdir(pid)
    \/ SetSid(pid)
    \/ Umask(pid)
    \/ Fork2(pid)
    \/ Redirect(pid)
    \/ GetUser(pid)
    \/ GetGroup(pid)
    \/ ChownPidFile(pid)
    \/ PrivilegedAction(pid)
    \/ ChangeRoot(pid)
    \/ SetGroup(pid)
    \/ SetUser(pid)
    \/ WritePidFile(pid)
    \/ ReturnOkStep(pid)

\* The pids one invocation can give its processes: the caller's and one
\* for each fork of the sequence.
StartPids ==
    PidBase .. (PidBase + Cardinality({ i \in 1..Len(StartSequence) :
                                         StartSequence[i] \in {"fork1", "fork2"} }))

\* One invocation whose processes are scheduled: while some process can
\* take a step of start, one is taken (the system calls return and the two
\* closures terminate).  What the caller does after start is left open.
SpecFair ==
    InitFair /\ [][Next]_vars /\ WF_vars(\E pid \in Pids : StartStep(pid))


(***************************************************************************)
(* Vocabulary of the properties.                                           *)
(***************************************************************************)
Invocations == DOMAIN cfg
ProcsOf(inv) == { p \in Pids : procs[p].inv = inv }
TraceOf(p) == procs[p].trace

\* The history holds the event (op, ok).
Has(tr, op, ok) == \E i \in 1..Len(tr) : tr[i] = Event(op, ok)
\* The call op was made, whatever it returned.
Tried(tr, op) == \E i \in 1..Len(tr) : tr[i].op = op
\* How often the call op was made.
Count(tr, op) == Cardinality({ i \in 1..Len(tr) : tr[i].op = op })
\* Every call of op2 comes after a successful op1.
Precedes(tr, op1, op2) ==
    \A j \in 1..Len(tr) :
        tr[j].op = op2 => \E i \in 1..(j - 1) : tr[i] = Event(op1, TRUE)
\* No call among ops comes before a call of op2.
NoneBefore(tr, ops, op2) ==
    \A j \in 1..Len(tr) :
        tr[j].op = op2 => \A i \in 1..(j - 1) : tr[i].op \notin ops

\* start has returned in p, with Ok / with the error kind.
Returned(p) == IsSome(procs[p].result)
ReturnedOk(p) == Returned(p) /\ Unwrap(procs[p].result).ok
ReturnedErr(p, kind) ==
    /\ Returned(p)
    /\ ~Unwrap(procs[p].result).ok
    /\ Unwrap(procs[p].result).val.kind = kind

\* p forked a child in this invocation.
HasChild(p) == \E q \in Pids : procs[q].ppid = p /\ procs[q].inv = procs[p].inv

\* The content of the file at loc; a file that does not exist has none.
Content(files, loc) == IF loc \in DOMAIN files THEN files[loc].content ELSE << >>

\* The number a string of decimal digits denotes.
DigitValue(ch) == CHOOSE d \in 0..9 : DigitChar(d) = ch
RECURSIVE DecimalValue(_)
DecimalValue(str) ==
    IF Len(str) = 0 THEN 0
    ELSE 10 * DecimalValue(SubSeq(str, 1, Len(str) - 1)) + DigitValue(str[Len(str)])

\* str is the decimal form of n: digits only, no leading zero, denoting n.
IsDecimalOf(str, n) ==
    /\ Len(str) >= 1
    /\ \A i \in 1..Len(str) : \E d \in 0..9 : str[i] = DigitChar(d)
    /\ Len(str) > 1 => str[1] # "0"
    /\ DecimalValue(str) = n

(***************************************************************************)
(* C1.  With a pid file configured, the file is opened and its exclusive   *)
(* lock acquired before fork #1 is attempted; if the open or the lock      *)
(* fails there is no fork, the exit action is not run, and the error is    *)
(* returned in the original process.                                       *)
(***************************************************************************)
C1_LockBeforeFork ==
    \A p \in Pids :
        LET tr == TraceOf(p)
            inv == procs[p].inv
        IN IsSome(cfg[inv].pid_file) =>
             /\ Precedes(tr, "open", "flock")
             /\ Precedes(tr, "flock", "fork1")
             /\ (Has(tr, "open", FALSE) \/ Has(tr, "flock", FALSE)) =>
                  /\ ~Tried(tr, "fork1")
                  /\ ProcsOf(inv) = {p}
                  /\ procs[p].role = "original"
                  /\ calls[inv].exit_action = << >>
                  /\ ReturnedErr(p, IF Has(tr, "open", FALSE) THEN "OpenPidfile"
                                    ELSE "LockPidfile")

\* Fork #1 has been made by a process that holds the lock on the pid file.
C1_Witness ==
    \E p \in Pids :
        /\ procs[p].role = "original"
        /\ IsSome(Conf(p).pid_file)
        /\ Has(TraceOf(p), "fork1", TRUE)
        /\ \E l \in locks : l.ofd = << p, Unwrap(procs[p].pid_file_fd) >>

(***************************************************************************)
(* C2.  Two invocations with the same pid file: at most one open file      *)
(* description holds the lock at any time, and a lock attempt made while a  *)
(* live process of the other invocation holds the locked descriptor ends   *)
(* in that same step with LockPidfile (it does not wait), leaves the locks *)
(* as they are, and the invocation that made it does not fork.             *)
(***************************************************************************)
C2_OneHolder ==
    /\ \A l1, l2 \in locks : l1.loc = l2.loc => l1 = l2
    /\ \A p \in Pids :
         ReturnedErr(p, "LockPidfile") =>
            /\ ~Tried(TraceOf(p), "fork1")
            /\ ProcsOf(procs[p].inv) = {p}

\* A live process of another invocation holds the locked pid file of p's.
HeldByOther(p) ==
    \E l \in locks, q \in Pids :
        /\ l.loc = Resolve(procs[p].root, procs[p].cwd, Unwrap(Conf(p).pid_file))
        /\ procs[q].inv # procs[p].inv
        /\ \E d \in DOMAIN procs[q].fds : procs[q].fds[d].ofd = l.ofd

C2_LockStep ==
    \A p \in Pids :
        ( /\ At(p, "create_pid_file")
          /\ IsSome(Conf(p).pid_file)
          /\ HeldByOther(p)
          /\ procs'[p] # procs[p] ) =>
            /\ procs'[p].status = "returned"
            /\ ~Unwrap(procs'[p].result).ok
            /\ Has(procs'[p].trace, "open", TRUE) =>
                 Unwrap(procs'[p].result).val =
                    DaemonizeError("LockPidfile", "EWOULDBLOCK")
            /\ locks' = locks
            /\ DOMAIN procs' = DOMAIN procs

C2_DoubleRunGuard == [] C2_OneHolder /\ [][C2_LockStep]_vars

\* B was refused the lock while A's daemon, returned from start, holds it.
C2_Witness ==
    \E a, b \in Pids :
        /\ procs[a].inv # procs[b].inv
        /\ ReturnedErr(b, "LockPidfile")
        /\ procs[a].role = "daemon" /\ ReturnedOk(a) /\ procs[a].status = "returned"
        /\ \E l \in locks, d \in DOMAIN procs[a].fds : procs[a].fds[d].ofd = l.ofd

C4_ActionPlacement ==
    /\ \A p \in Pids :
         LET tr == TraceOf(p)
         IN /\ Precedes(tr, "fork1", "privileged_action")
            /\ Precedes(tr, "setsid", "privileged_action")
            /\ Precedes(tr, "fork2", "privileged_action")
            /\ Precedes(tr, "redirect", "privileged_action")
            /\ NoneBefore(tr, {"chroot", "setgid", "setuid"}, "privileged_action")
            /\ Tried(tr, "privileged_action") =>
                 /\ procs[p].role = "daemon"
                 /\ procs[p].sid # p /\ ~procs[p].ctty
                 /\ procs[p].status # "exited" =>
                       \A d \in {STDIN_FILENO, STDOUT_FILENO, STDERR_FILENO} :
                          d \in DOMAIN procs[p].fds => procs[p].fds[d].kind # "tty"
    /\ \A inv \in Invocations :
         \A i \in 1..Len(calls[inv].privileged_action) :
            procs[calls[inv].privileged_action[i]].role = "daemon"

\* The action ran in a daemon that went on to chroot and to drop its user.
C4_Witness ==
    \E p \in Pids :
        /\ Has(TraceOf(p), "privileged_action", TRUE)
        /\ Has(TraceOf(p), "chroot", TRUE)
        /\ Has(TraceOf(p), "setuid", TRUE)
        /\ calls[procs[p].inv].privileged_action = << p >>

(***************************************************************************)
(* C5.  With a group and a user configured, setgid is called before        *)
(* setuid, setuid is attempted only after setgid succeeded, and a process  *)
(* whose user was dropped has the configured group applied.                *)
(***************************************************************************)
C5_GroupBeforeUser ==
    \A p \in Pids :
        LET tr == TraceOf(p)
        IN (IsSome(Conf(p).group) /\ IsSome(Conf(p).user)) =>
             /\ Precedes(tr, "setgid", "setuid")
             /\ Has(tr, "setgid", FALSE) => ~Tried(tr, "setuid")
             /\ Has(tr, "setuid", TRUE) =>
                  /\ IsSome(procs[p].gid)
                  /\ procs[p].egid = Unwrap(procs[p].gid)

\* Both were configured and the user has been dropped.
C5_Witness ==
    \E p \in Pids :
        /\ IsSome(Conf(p).group) /\ IsSome(Conf(p).user)
        /\ Has(TraceOf(p), "setuid", TRUE)
        /\ procs[p].euid = Unwrap(procs[p].uid)
        /\ procs[p].euid # 0

(***************************************************************************)
(* C6.  With a chroot path configured, chroot is called after the          *)
(* privileged action has returned and before setgid and setuid; when it    *)
(* fails start returns Chroot(errno) and neither drop is attempted.        *)
(***************************************************************************)
C6_ChrootPlacement ==
    \A p \in Pids :
        LET tr == TraceOf(p)
        IN IsSome(Conf(p).root) =>
             /\ Precedes(tr, "privileged_action", "chroot")
             /\ NoneBefore(tr, {"setgid", "setuid"}, "chroot")
             /\ Has(tr, "chroot", FALSE) =>
                  /\ ~Tried(tr, "setgid")
                  /\ ~Tried(tr, "setuid")
                  /\ ReturnedErr(p, "Chroot")
                  /\ Unwrap(procs[p].result).val.errno # NoErrno

\* chroot failed in a daemon that had a group and a user to drop to.
C6_Witness ==
    \E p \in Pids :
        /\ ReturnedErr(p, "Chroot")
        /\ IsSome(procs[p].gid) /\ IsSome(procs[p].uid)
        /\ Has(TraceOf(p), "privileged_action", TRUE)

(***************************************************************************)
(* C7.  The pid file is written at most once per invocation, only by the   *)
(* final daemon process, only after setgid and setuid (when configured)    *)
(* have succeeded; when a step before the write fails the content of the   *)
(* pid file is what it was before start was called.                        *)
(***************************************************************************)
C7_WriteOnceLast ==
    \A inv \in Invocations :
        LET writers == { p \in ProcsOf(inv) : Tried(TraceOf(p), "ftruncate") }
        IN /\ Cardinality(writers) <= 1
           /\ \A p \in writers :
                /\ procs[p].role = "daemon"
                /\ Count(TraceOf(p), "ftruncate") = 1
                /\ Count(TraceOf(p), "write") <= 1
                /\ IsSome(cfg[inv].group) => Precedes(TraceOf(p), "setgid", "ftruncate")
                /\ IsSome(cfg[inv].user) => Precedes(TraceOf(p), "setuid", "ftruncate")
           /\ writers = {} => Content(fs, PidLoc) = Content(fs0, PidLoc)

\* A privilege drop failed over a locked pid file left by an earlier daemon.
C7_Witness ==
    \E p \in Pids :
        /\ (ReturnedErr(p, "SetGroup") \/ ReturnedErr(p, "SetUser"))
        /\ IsSome(procs[p].pid_file_fd)
        /\ PidLoc \in DOMAIN fs0
        /\ Content(fs, PidLoc) # << >>

UnknownUser(c) ==
    /\ IsSome(c.user)
    /\ Unwrap(c.user).tag = "Name"
    /\ ~ContainsNul(Unwrap(c.user).name)
    /\ get_uid_by_name(Unwrap(c.user).name) = {None}

C9_ParentExits ==
    \A p \in Pids :
        HasChild(p) =>
            /\ ~Returned(p)
            /\ procs[p].status # "returned"
            /\ procs[p].status = "exited" => procs[p].exit_status = Some(0)
            /\ procs[p].status = "running" =>
                 /\ procs[p].pc \in {"exit_action", "exit"}
                 /\ ENABLED (ExitAction(p) \/ ParentExit(p))
            /\ procs[p].role = "leader" => procs[p].pc # "exit_action"
            /\ (procs[p].role = "original" /\ procs[p].pc # "exit_action") =>
                 /\ calls[procs[p].inv].exit_action = << p >>
                 /\ TraceOf(p)[Len(TraceOf(p))] = Event("exit_action", TRUE)

\* Both parents have exited with 0 though start failed in their descendant.
C9_Witness ==
    \E p, q, d \in Pids :
        /\ procs[p].role = "original" /\ procs[p].exit_status = Some(0)
        /\ procs[q].role = "leader" /\ procs[q].exit_status = Some(0)
        /\ procs[d].role = "daemon" /\ Returned(d) /\ ~ReturnedOk(d)

(***************************************************************************)
(* C10.  In one invocation the exit action is invoked at most once and the *)
(* privileged action at most once; the exit action only by the parent of   *)
(* fork #1 (not by the parent of fork #2, not by the daemon, and not when  *)
(* fork #1 fails).                                                         *)
(***************************************************************************)
C10_OneShotActions ==
    \A inv \in Invocations :
        /\ Len(calls[inv].exit_action) <= 1
        /\ Len(calls[inv].privileged_action) <= 1
        /\ \A i \in 1..Len(calls[inv].exit_action) :
              LET caller == calls[inv].exit_action[i]
              IN /\ procs[caller].role = "original"
                 /\ Precedes(TraceOf(caller), "fork1", "exit_action")
        /\ \A p \in ProcsOf(inv) :
              /\ Tried(TraceOf(p), "exit_action") => procs[p].role = "original"
              /\ Count(TraceOf(p), "privileged_action") <= 1
              /\ Has(TraceOf(p), "fork1", FALSE) => calls[inv].exit_action = << >>

\* Each closure has been invoked once, by different processes.
C10_Witness ==
    \E inv \in Invocations :
        /\ Len(calls[inv].exit_action) = 1
        /\ Len(calls[inv].privileged_action) = 1
        /\ calls[inv].exit_action # calls[inv].privileged_action

(***************************************************************************)
(* C11.  The first failing step ends the sequence and nothing is undone:   *)
(* a failed call is the last call in the history of its process and start  *)
(* has returned an error there; a process in which start has returned      *)
(* takes no further step of start; and the effect of every successful step *)
(* (working directory, session, umask, redirected streams, chown, the      *)
(* privileged action, root, group) is still in place afterwards, so a      *)
(* process whose chroot succeeded stays chrooted when setgid or setuid      *)
(* fails.                                                                  *)
(***************************************************************************)
C11_EffectsKept(p) ==
    LET tr == TraceOf(p)
        c == cfg[procs[p].inv]
    IN /\ Has(tr, "chdir", TRUE) => procs[p].cwd = c.directory.comps
       /\ Has(tr, "setsid", TRUE) => ~procs[p].ctty /\ procs[p].sid \in Pids
       /\ Has(tr, "umask", TRUE) => procs[p].umask = c.umask
       /\ (Has(tr, "redirect", TRUE) /\ Alive(p)) =>
             \A d \in {STDIN_FILENO, STDOUT_FILENO, STDERR_FILENO} :
                d \in DOMAIN procs[p].fds => procs[p].fds[d].kind # "tty"
       /\ Has(tr, "chown", TRUE) =>
             /\ IsSome(procs[p].uid) => fs[PidLoc].uid = Unwrap(procs[p].uid)
             /\ IsSome(procs[p].gid) => fs[PidLoc].gid = Unwrap(procs[p].gid)
       /\ Has(tr, "privileged_action", TRUE) =>
             calls[procs[p].inv].privileged_action = << p >>
       /\ Has(tr, "chroot", TRUE) => procs[p].root = Unwrap(c.root).comps
       /\ Has(tr, "setgid", TRUE) => procs[p].egid = Unwrap(procs[p].gid)

C11_State ==
    \A p \in Pids :
        /\ \A i \in 1..Len(TraceOf(p)) :
              ~TraceOf(p)[i].ok =>
                  /\ i = Len(TraceOf(p))
                  /\ Returned(p) /\ ~ReturnedOk(p)
        /\ Returned(p) => procs[p].pc = "done"
        /\ C11_EffectsKept(p)

C11_Step ==
    \A p \in Pids :
        Returned(p) =>
            /\ procs'[p].trace = procs[p].trace
            /\ procs'[p].result = procs[p].result
            /\ procs'[p].pc = "done"
            /\ \A f \in {"cwd", "root", "umask", "sid", "ctty", "euid", "egid"} :
                  procs'[p][f] = procs[p][f]
            /\ procs'[p].fds # procs[p].fds => procs'[p].status = "exited"
            /\ (PidLoc \in DOMAIN fs /\ fs'[PidLoc] # fs[PidLoc]) =>
                  \E q \in Pids \ {p} : procs'[q] # procs[q]

C11_FirstFailureEnds == [] C11_State /\ [][C11_Step]_vars

\* setgid or setuid failed in a process whose chroot had succeeded, and the
\* process is still chrooted.
C11_Witness ==
    \E p \in Pids :
        /\ Has(TraceOf(p), "chroot", TRUE)
        /\ ReturnedErr(p, "SetGroup") \/ ReturnedErr(p, "SetUser")
        /\ procs[p].root = << "jail" >>
        /\ procs[p].cwd = cfg[procs[p].inv].directory.comps

(***************************************************************************)
(* C12.  start returns Ok(r) if and only if every step of the fixed        *)
(* sequence succeeded, and r is the value the single call of the           *)
(* privileged action returned; when a step after the privileged action     *)
(* (chroot, setgid, setuid, the pid write) fails, start returns the error   *)
(* of that step and not the result of the action.                          *)
(***************************************************************************)
\* The error start reports for a failed call.
C12_KindOf(op) ==
    CASE op = "chroot" -> "Chroot"
      [] op = "setgid" -> "SetGroup"
      [] op = "setuid" -> "SetUser"
      [] op \in {"ftruncate", "write"} -> "WritePid"
      [] OTHER -> "other"

C12_OkIffAllSucceeded ==
    \A p \in Pids :
        LET tr == TraceOf(p)
            c == cfg[procs[p].inv]
            res == Unwrap(procs[p].result)
        IN /\ ReturnedOk(p) =>
                /\ \A i \in 1..Len(tr) : tr[i].ok
                /\ \A op \in {"fork1", "chdir", "setsid", "umask", "fork2",
                               "redirect", "privileged_action"} : Has(tr, op, TRUE)
                /\ IsSome(c.pid_file) =>
                      \A op \in {"open", "flock", "ftruncate", "write"} :
                          Has(tr, op, TRUE)
                /\ IsSome(c.user) => Has(tr, "get_user", TRUE) /\ Has(tr, "setuid", TRUE)
                /\ IsSome(c.group) => Has(tr, "get_group", TRUE) /\ Has(tr, "setgid", TRUE)
                /\ IsSome(c.root) => Has(tr, "chroot", TRUE)
                /\ res.val = Some(c.privileged_action)
                /\ res.val = procs[p].privileged_action_result
                /\ calls[procs[p].inv].privileged_action = << p >>
           /\ (Returned(p) /\ ~ReturnedOk(p)) =>
                \/ Len(tr) > 0 /\ ~tr[Len(tr)].ok
                \/ res.val.kind = "PathContainsNul"
           /\ (Returned(p) /\ Has(tr, "privileged_action", TRUE)
                 /\ ~tr[Len(tr)].ok) =>
                /\ ~res.ok
                /\ res.val.kind = C12_KindOf(tr[Len(tr)].op)
                /\ res.val.kind \in {"Chroot", "SetGroup", "SetUser", "WritePid"}

\* start returned the action's value after a chroot, a drop of the user and
\* a pid write.
C12_Witness ==
    \E p \in Pids :
        /\ ReturnedOk(p)
        /\ Unwrap(procs[p].result).val = Some("socket")
        /\ Has(TraceOf(p), "chroot", TRUE)
        /\ Has(TraceOf(p), "setuid", TRUE)
        /\ Has(TraceOf(p), "write", TRUE)

(***************************************************************************)
(* C13.  An invocation that fails to lock the pid file leaves its content  *)
(* unchanged: the step in which the lock attempt fails does not change the *)
(* content, the failing invocation never truncates or writes the file, and *)
(* from the moment a daemon has written its pid and for as long as it is   *)
(* alive the file holds exactly that pid, whatever the other invocation    *)
(* does.                                                                   *)
(***************************************************************************)
C13_State ==
    \A p \in Pids :
        /\ (procs[p].role = "daemon" /\ Has(TraceOf(p), "write", TRUE) /\ Alive(p)) =>
               Content(fs, PidLoc) = FormatPid(p)
        /\ ReturnedErr(p, "LockPidfile") =>
               /\ procs[p].role = "original"
               /\ ~Tried(TraceOf(p), "ftruncate") /\ ~Tried(TraceOf(p), "write")
               /\ ProcsOf(procs[p].inv) = {p}

C13_Step ==
    \A p \in Pids :
        (~Tried(TraceOf(p), "flock") /\ Has(procs'[p].trace, "flock", FALSE)) =>
            /\ Content(fs', PidLoc) = Content(fs, PidLoc)
            /\ Unwrap(procs'[p].result).val.errno = "EWOULDBLOCK" => fs' = fs

C13_LoserLeavesContent == [] C13_State /\ [][C13_Step]_vars

\* One invocation's daemon has written its pid and is alive, the other
\* invocation came back with LockPidfile, and the file holds the daemon's pid.
C13_Witness ==
    \E p, q \in Pids :
        /\ procs[p].inv # procs[q].inv
        /\ procs[p].role = "daemon" /\ ReturnedOk(p) /\ Alive(p)
        /\ ReturnedErr(q, "LockPidfile")
        /\ Unwrap(procs[q].result).val.errno = "EWOULDBLOCK"
        /\ Content(fs, PidLoc) = FormatPid(p)
        /\ Content(fs0, PidLoc) # FormatPid(p)

(***************************************************************************)
(* C14.  Once every process of the other invocation that had the locked    *)
(* pid-file descriptor has exited, an invocation about to open the same    *)
(* path can acquire the lock, whatever the file holds; and a lock attempt  *)
(* is turned away with EWOULDBLOCK only while a live process of the other  *)
(* invocation has the locked descriptor.                                   *)
(***************************************************************************)
\* A live process of another invocation than p's has the locked descriptor.
C14_HeldElsewhere(p) ==
    \E q \in Pids :
        /\ procs[q].inv # procs[p].inv
        /\ IsSome(procs[q].pid_file_fd)
        /\ Alive(q)

C14_State ==
    \A p \in Pids :
        (At(p, "create_pid_file") /\ ~C14_HeldElsewhere(p)) =>
            ENABLED (CreatePidFile(p) /\ IsSome(procs'[p].pid_file_fd))

C14_Step ==
    \A p \in Pids :
        (/\ ~Tried(TraceOf(p), "flock")
         /\ Has(procs'[p].trace, "flock", FALSE)
         /\ Unwrap(procs'[p].result).val.errno = "EWOULDBLOCK") =>
            C14_HeldElsewhere(p)

C14_LockFreedByExit == [] C14_State /\ [][C14_Step]_vars

\* An invocation returned Ok and wrote its pid over the pid left by the
\* other invocation, whose daemon had written it and whose processes have
\* all exited.
C14_Witness ==
    \E p, q \in Pids :
        /\ procs[p].inv # procs[q].inv
        /\ procs[q].role = "daemon" /\ Has(TraceOf(q), "write", TRUE)
        /\ \A r \in ProcsOf(procs[q].inv) : ~Alive(r)
        /\ procs[p].role = "daemon" /\ ReturnedOk(p) /\ Alive(p)
        /\ Content(fs, PidLoc) = FormatPid(p)

(***************************************************************************)
(* C15.  After start returns Ok, each of the descriptors 0, 1 and 2 of the *)
(* daemon is open on the null device or on the file given with             *)
(* stdout(file) / stderr(file); stdin is always on the null device; none   *)
(* is on the terminal; and the null-device descriptor opened for the       *)
(* redirection is closed.                                                  *)
(***************************************************************************)
\* Descriptor d of process p is open on what stdio asks for.
C15_On(p, d, stdio, loc) ==
    /\ d \in DOMAIN procs[p].fds
    /\ IF stdio.inner = "Devnull"
       THEN procs[p].fds[d].kind = "devnull"
       ELSE procs[p].fds[d].kind = "file" /\ procs[p].fds[d].loc = loc

C15_StreamsRedirected ==
    \A p \in Pids :
        (ReturnedOk(p) /\ Alive(p)) =>
            LET c == cfg[procs[p].inv]
            IN /\ C15_On(p, STDIN_FILENO, StdioDevnull, << >>)
               /\ C15_On(p, STDOUT_FILENO, c.stdout, OutLoc)
               /\ C15_On(p, STDERR_FILENO, c.stderr, ErrLoc)
               /\ \A d \in DOMAIN procs[p].fds :
                     /\ procs[p].fds[d].kind # "tty"
                     /\ procs[p].fds[d].kind = "devnull" =>
                           d \in {STDIN_FILENO, STDOUT_FILENO, STDERR_FILENO}

(***************************************************************************)
(* C16.  After start returns Ok the daemon's working directory is the      *)
(* directory given with working_directory(D), "/" when none was given;     *)
(* the change is made in the child of fork #1, before the session is       *)
(* created, and its failure is reported as ChangeDirectory.                *)
(***************************************************************************)
C16_WorkingDirectory ==
    \A p \in Pids :
        LET tr == TraceOf(p)
            c == cfg[procs[p].inv]
        IN /\ ReturnedOk(p) =>
                /\ Has(tr, "chdir", TRUE)
                /\ procs[p].cwd = Resolve(<< >>, << "home" >>, c.directory)
           /\ Precedes(tr, "fork1", "chdir")
           /\ NoneBefore(tr, {"setsid", "umask", "fork2"}, "chdir")
           /\ Count(tr, "chdir") <= 1
           /\ Tried(tr, "chdir") => procs[p].role \in {"leader", "daemon"}
           /\ Has(tr, "chdir", FALSE) =>
                /\ procs[p].role = "leader"
                /\ ReturnedErr(p, "ChangeDirectory")
                /\ procs[p].cwd = << "home" >>
           /\ ReturnedErr(p, "ChangeDirectory") => Has(tr, "chdir", FALSE)

\* start returned Ok in a daemon whose directory is the one configured and
\* not the one the caller was in.
C16_Witness ==
    \E p \in Pids :
        /\ ReturnedOk(p)
        /\ cfg[procs[p].inv].directory = AbsPath(<< "tmp" >>)
        /\ procs[p].cwd = << "tmp" >>
        /\ \E q \in Pids : procs[q].role = "original" /\ procs[q].cwd = << "home" >>

(***************************************************************************)
(* C17.  After start returns Ok the daemon's file-creation mask is the     *)
(* value given with umask(M), 0o027 when none was given, so a file the     *)
(* daemon creates afterwards has the bits of M cleared; applying the mask  *)
(* never fails.                                                            *)
(***************************************************************************)
C17_MaskApplied ==
    /\ \A p \in Pids :
         LET tr == TraceOf(p)
             c == cfg[procs[p].inv]
         IN /\ ~Has(tr, "umask", FALSE)
            /\ Has(tr, "umask", TRUE) => procs[p].umask = c.umask
            /\ ReturnedOk(p) =>
                 /\ Has(tr, "umask", TRUE)
                 /\ procs[p].umask = c.umask
                 /\ LET loc == Resolve(procs[p].root, procs[p].cwd, TestFile)
                    IN loc \in DOMAIN fs =>
                          /\ fs[loc].mode = ClearBits(FileCreateMode, c.umask, 9)
                          /\ ClearBits(fs[loc].mode, c.umask, 9) = fs[loc].mode
    /\ \A loc \in DOMAIN fs \ (DOMAIN fs0 \cup {PidLoc}) :
         \E inv \in Invocations :
            /\ fs[loc].mode = ClearBits(FileCreateMode, cfg[inv].umask, 9)
            /\ ClearBits(fs[loc].mode, cfg[inv].umask, 9) = fs[loc].mode

\* Under umask(0o222) the daemon created a file and it is read-only (0o444).
C17_Witness ==
    \E p \in Pids :
        /\ ReturnedOk(p)
        /\ cfg[procs[p].inv].umask = 146
        /\ << "tmp", "test" >> \in DOMAIN fs
        /\ fs[<< "tmp", "test" >>].mode = 292

(***************************************************************************)
(* C18.  The process in which start returns Ok is never a session leader:  *)
(* the session is created by the child of fork #1, that process exits with *)
(* status 0 after fork #2 and never returns from start, and the daemon is  *)
(* its child, so the daemon's pid differs from its session id, and the     *)
(* daemon has no controlling terminal.                                     *)
(***************************************************************************)
C18_NotSessionLeader ==
    \A p \in Pids :
        LET tr == TraceOf(p)
            par == procs[p].ppid
        IN /\ Precedes(tr, "fork1", "setsid")
           /\ NoneBefore(tr, {"fork2"}, "setsid")
           /\ Count(tr, "setsid") <= 1
           /\ procs[p].role = "daemon" =>
                /\ Has(tr, "setsid", TRUE)
                /\ procs[par].role = "leader"
                /\ procs[par].sid = par
                /\ procs[p].sid = par /\ procs[p].sid # p
                /\ procs[p].pgid = par /\ procs[p].pgid # p
                /\ ~procs[p].ctty
                /\ ~Returned(par)
                /\ ~Alive(par) => procs[par].exit_status = Some(0)
           /\ ReturnedOk(p) => procs[p].role = "daemon"

\* start returned Ok in the child of a session leader that has exited with
\* status 0.
C18_Witness ==
    \E p \in Pids :
        /\ ReturnedOk(p)
        /\ procs[p].sid = procs[p].ppid
        /\ procs[procs[p].ppid].role = "leader"
        /\ procs[procs[p].ppid].exit_status = Some(0)

C20_Before(p, side) ==
    IF PidLoc \in DOMAIN fs0 THEN fs0[PidLoc][side]
    ELSE IF side = "uid" THEN procs[p].euid ELSE procs[p].egid

C20_SentinelPassed ==
    \A p \in Pids :
        LET c == cfg[procs[p].inv]
            args == ChownArgs(c.pid_file, procs[p].uid, procs[p].gid)
        IN Has(TraceOf(p), "chown", TRUE) =>
              /\ (IsSome(c.user) /\ ~IsSome(c.group)) =>
                    /\ Unwrap(args).gid = IdMax
                    /\ fs[PidLoc].gid = C20_Before(p, "gid")
                    /\ fs[PidLoc].uid = Unwrap(procs[p].uid)
              /\ (~IsSome(c.user) /\ IsSome(c.group)) =>
                    /\ Unwrap(args).uid = IdMax
                    /\ fs[PidLoc].uid = C20_Before(p, "uid")
                    /\ fs[PidLoc].gid = Unwrap(procs[p].gid)

(***************************************************************************)
(* C21.  A failure before fork #1 is returned in the original process,     *)
(* which is then the only process of the invocation; a failure after both  *)
(* forks is returned in the daemon only: the original process and the      *)
(* child of fork #1 never have a result, are on their way to exit(0) or    *)
(* have exited with status 0, and no later step changes what they hold.    *)
(***************************************************************************)
\* p is a parent that observes nothing of start's outcome.
C21_Unaware(p) ==
    /\ ~Returned(p)
    /\ procs[p].status # "returned"
    /\ procs[p].pc \in {"exit_action", "exit", "done"}
    /\ procs[p].status = "exited" => procs[p].exit_status = Some(0)

C21_State ==
    \A p \in Pids :
        (Returned(p) /\ ~ReturnedOk(p)) =>
            /\ ~Has(TraceOf(p), "fork1", TRUE) =>
                  /\ procs[p].role = "original"
                  /\ ProcsOf(procs[p].inv) = {p}
            /\ Has(TraceOf(p), "fork2", TRUE) =>
                  /\ procs[p].role = "daemon"
                  /\ \A q \in ProcsOf(procs[p].inv) \ {p} :
                        /\ procs[q].role \in {"original", "leader"}
                        /\ C21_Unaware(q)

\* A process that has exited stays as it is: its status is final.
C21_Step ==
    \A p \in Pids :
        procs[p].status = "exited" => procs'[p] = procs[p]

C21_FailurePropagation == [] C21_State /\ [][C21_Step]_vars

\* The daemon has the error of a failed chroot, and the original process
\* and the child of fork #1 have both exited with status 0.
C21_Witness ==
    \E p, q, d \in Pids :
        /\ procs[d].role = "daemon" /\ ReturnedErr(d, "Chroot")
        /\ procs[p].role = "original" /\ procs[p].exit_status = Some(0)
        /\ procs[q].role = "leader" /\ procs[q].exit_status = Some(0)
        /\ ~Returned(p) /\ ~Returned(q)

(***************************************************************************)
(* C22.  From the acquisition of the pid-file lock until the last process  *)
(* of the invocation exits, a live process of the invocation holds the     *)
(* lock: every live process that made or inherited the locked descriptor   *)
(* still has it open and locked, a parent exits only after its child has   *)
(* the descriptor, and a competing invocation acquires the lock only when  *)
(* every such process has exited.                                          *)
(***************************************************************************)
\* p has the pid-file descriptor open and its description holds the lock.
C22_Holds(p) ==
    /\ IsSome(procs[p].pid_file_fd)
    /\ Unwrap(procs[p].pid_file_fd) \in DOMAIN procs[p].fds
    /\ \E l \in locks :
          /\ l.loc = PidLoc
          /\ l.ofd = procs[p].fds[Unwrap(procs[p].pid_file_fd)].ofd

\* p locked the pid file or descends from the process that did.
C22_Locked(p) == Has(TraceOf(p), "flock", TRUE)

C22_State ==
    \A p \in Pids :
        C22_Locked(p) =>
            /\ Alive(p) => C22_Holds(p)
            /\ (~Alive(p) /\ ~Returned(p)) =>
                  \E q \in Pids : procs[q].ppid = p /\ C22_Locked(q)
            /\ (\E q \in ProcsOf(procs[p].inv) : Alive(q)) =>
                  \E q \in ProcsOf(procs[p].inv) : Alive(q) /\ C22_Holds(q)

C22_Step ==
    \A p, q \in Pids :
        (/\ procs[p].inv # procs[q].inv
         /\ C22_Locked(p)
         /\ ~C22_Locked(q)
         /\ Has(procs'[q].trace, "flock", TRUE)) =>
            \A r \in ProcsOf(procs[p].inv) : ~Alive(r)

C23_NewlineTerminated ==
    \A p \in Pids :
        (ReturnedOk(p) /\ IsSome(Conf(p).pid_file)) =>
            LET content == Content(fs, PidLoc)
            IN /\ Len(content) >= 2
               /\ content[Len(content)] = "\n"
               /\ IsDecimalOf(SubSeq(content, 1, Len(content) - 1), p)

(***************************************************************************)
(* C24.  Displaying the error start returned yields the phrase of its kind *)
(* followed by the OS error code, except for the variants without a code   *)
(* (GroupNotFound, GroupContainsNul, UserNotFound, UserContainsNul,        *)
(* PathContainsNul, WritePid), which yield the phrase alone.               *)
(***************************************************************************)
C24_Codeless ==
    {"GroupNotFound", "GroupContainsNul", "UserNotFound", "UserContainsNul",
     "PathContainsNul", "WritePid"}

C24_DisplayShowsErrno ==
    \A p \in Pids :
        (Returned(p) /\ ~ReturnedOk(p)) =>
            LET e == Unwrap(procs[p].result).val
            IN /\ Display(e)[1] = description(e)
               /\ e.kind \in C24_Codeless => Len(Display(e)) = 1
               /\ e.kind \notin C24_Codeless =>
                     /\ e.errno # NoErrno
                     /\ Len(Display(e)) = 2
                     /\ Display(e)[2] = e.errno

(***************************************************************************)
(* C25.  The pid file is chowned if and only if chown_pid_file is true, a  *)
(* pid file is configured and a user or a group is configured: with any    *)
(* other configuration no chown call is made and no ChownPidfile error is  *)
(* returned.  The call comes after both identities are resolved and before *)
(* the privileged action.                                                  *)
(***************************************************************************)
C25_Wanted(c) ==
    /\ c.chown_pid_file
    /\ IsSome(c.pid_file)
    /\ IsSome(c.user) \/ IsSome(c.group)

C25_ChownIffConfigured ==
    \A p \in Pids :
        LET tr == TraceOf(p)
            c == Conf(p)
        IN /\ Tried(tr, "chown") => C25_Wanted(c)
           /\ ReturnedErr(p, "ChownPidfile") <=> Has(tr, "chown", FALSE)
           /\ Tried(tr, "privileged_action") =>
                 (Has(tr, "chown", TRUE) <=> C25_Wanted(c))
           /\ Count(tr, "chown") <= 1
           /\ Tried(tr, "chown") =>
                 /\ IsSome(c.user) => Precedes(tr, "get_user", "chown")
                 /\ IsSome(c.group) => Precedes(tr, "get_group", "chown")
                 /\ NoneBefore(tr, {"privileged_action", "chroot", "setgid",
                                    "setuid", "write"}, "chown")

\* The pid file was chowned with only a group configured, and the
\* privileged action ran afterwards.
C25_Witness ==
    \E p \in Pids :
        /\ ~IsSome(Conf(p).user)
        /\ Has(TraceOf(p), "chown", TRUE)
        /\ Tried(TraceOf(p), "privileged_action")

(***************************************************************************)
(* C26.  The user is resolved before the group, so with both invalid the   *)
(* user's error is returned; a numeric id passes through as it is,         *)
(* whatever the name service holds; a name with a NUL byte gives           *)
(* UserContainsNul / GroupContainsNul and never an answer of the name      *)
(* service; a name the service does not know gives UserNotFound /          *)
(* GroupNotFound.                                                          *)
(***************************************************************************)
\* x is configured as a name without a NUL byte.
C26_IsName(x) ==
    IsSome(x) /\ Unwrap(x).tag = "Name" /\ ~ContainsNul(Unwrap(x).name)

\* The configured user / group is a name the name service does not know.
C26_UnknownUser(c) ==
    C26_IsName(c.user) /\ get_uid_by_name(Unwrap(c.user).name) = {None}
C26_UnknownGroup(c) ==
    C26_IsName(c.group) /\ get_gid_by_name(Unwrap(c.group).name) = {None}

C26_IsId(x) == IsSome(x) /\ Unwrap(x).tag = "Id"

C26_Resolution ==
    \A p \in Pids :
        LET tr == TraceOf(p)
            c == Conf(p)
            me == procs[p]
        IN /\ Tried(tr, "get_group") =>
                 /\ IsSome(c.user) => Precedes(tr, "get_user", "get_group")
                 /\ ~HasNul(c.user) /\ ~C26_UnknownUser(c)
           /\ (Tried(tr, "get_user") /\ C26_IsId(c.user)) =>
                 /\ Has(tr, "get_user", TRUE)
                 /\ me.uid = Some(Unwrap(c.user).id)
           /\ (Tried(tr, "get_group") /\ C26_IsId(c.group)) =>
                 /\ Has(tr, "get_group", TRUE)
                 /\ me.gid = Some(Unwrap(c.group).id)
           /\ (Tried(tr, "get_user") /\ HasNul(c.user)) =>
                 ReturnedErr(p, "UserContainsNul")
           /\ (Tried(tr, "get_group") /\ HasNul(c.group)) =>
                 ReturnedErr(p, "GroupContainsNul")
           /\ (Tried(tr, "get_user") /\ C26_UnknownUser(c)) =>
                 ReturnedErr(p, "UserNotFound")
           /\ (Tried(tr, "get_group") /\ C26_UnknownGroup(c)) =>
                 ReturnedErr(p, "GroupNotFound")
           /\ ReturnedErr(p, "UserContainsNul") => HasNul(c.user)
           /\ ReturnedErr(p, "GroupContainsNul") => HasNul(c.group)
           /\ ReturnedErr(p, "UserNotFound") =>
                 /\ ~HasNul(c.user) /\ ~C26_IsId(c.user)
                 /\ None \in get_uid_by_name(Unwrap(c.user).name)
           /\ ReturnedErr(p, "GroupNotFound") =>
                 /\ ~HasNul(c.group) /\ ~C26_IsId(c.group)
                 /\ None \in get_gid_by_name(Unwrap(c.group).name)

\* The user has a NUL byte and the group is unknown: the user's error is
\* returned and the group was never looked at.
C26_Witness ==
    \E p \in Pids :
        /\ HasNul(Conf(p).user)
        /\ C26_UnknownGroup(Conf(p))
        /\ ReturnedErr(p, "UserContainsNul")
        /\ ~Tried(TraceOf(p), "get_group")

(***************************************************************************)
(* C27.  With the exit action and the privileged action terminating,       *)
(* every process of an invocation eventually exits or returns from start:  *)
(* a process running start can always take its next step (no step waits    *)
(* for another process, the lock attempt included), and it takes each step *)
(* of the sequence at most once.                                           *)
(***************************************************************************)
\* Process pid exists and has exited or returned from start.
C27_Done(pid) == pid \in Pids /\ procs[pid].status # "running"

C27_NeverBlocked ==
    \A p \in Pids :
        procs[p].status = "running" =>
            /\ ENABLED StartStep(p)
            /\ \A i, j \in 1..Len(TraceOf(p)) :
                  TraceOf(p)[i].op = TraceOf(p)[j].op => i = j

C27_Terminates ==
    /\ [] C27_NeverBlocked
    /\ \A pid \in StartPids : [](pid \in Pids => <> C27_Done(pid))

\* All three processes are done: two exited, the daemon returned Ok.
C27_Witness ==
    /\ \A pid \in StartPids : C27_Done(pid)
    /\ \E d \in Pids : procs[d].role = "daemon" /\ ReturnedOk(d)

(***************************************************************************)
(* C28.  As claimed: the mask given with umask(M) is in effect when the    *)
(* pid file is created, so a pid file start creates has the permission     *)
(* bits 0o666 with the bits of M cleared.                                  *)
(***************************************************************************)
\* p opened the pid file and no file was there before start.
C28_Created(p) ==
    /\ Has(TraceOf(p), "open", TRUE)
    /\ PidLoc \notin DOMAIN fs0
    /\ PidLoc \in DOMAIN fs

C28_Original ==
    \A p \in Pids :
        C28_Created(p) =>
            fs[PidLoc].mode = ClearBits(PidFileMode, Conf(p).umask, 9)

(***************************************************************************)
(* C28, amended.  The pid file is created before umask(M) is applied, by   *)
(* the original process: a pid file start creates has the permission bits  *)
(* 0o666 with the bits of the caller's own mask cleared, whatever M is, a  *)
(* pid file that exists keeps its mode, and the mask is set to M only      *)
(* after the file was opened.                                              *)
(***************************************************************************)
C28_CreatedUnderCallersMask ==
    \A p \in Pids :
        LET tr == TraceOf(p)
        IN /\ NoneBefore(tr, {"umask"}, "open")
           /\ (Tried(tr, "umask") /\ IsSome(Conf(p).pid_file)) =>
                 Precedes(tr, "flock", "umask")
           /\ C28_Created(p) =>
                 \E o \in ProcsOf(procs[p].inv) :
                    /\ procs[o].role = "original"
                    /\ ~Tried(TraceOf(o), "umask")
                    /\ fs[PidLoc].mode = ClearBits(PidFileMode, procs[o].umask, 9)
           /\ (Has(tr, "open", TRUE) /\ PidLoc \in DOMAIN fs0) =>
                 fs[PidLoc].mode = fs0[PidLoc].mode

\* start returned Ok in a daemon whose mask is M, and the pid file it
\* created has bits that M would have cleared.
C28_Witness ==
    \E p \in Pids :
        /\ ReturnedOk(p) /\ C28_Created(p)
        /\ procs[p].umask = Conf(p).umask
        /\ fs[PidLoc].mode # ClearBits(PidFileMode, Conf(p).umask, 9)

(***************************************************************************)
(* C29.  In every invocation at most one process returns from start, and   *)
(* once all its processes are done exactly one has returned and every      *)
(* other has exited with status 0.  The original process returns only when *)
(* creating the pid file (path, open, lock) or fork #1 failed; the child    *)
(* of fork #1 only when chdir, setsid or fork #2 failed; in every other     *)
(* case the process that returns is the daemon, the only one in which Ok   *)
(* is returned.                                                            *)
(***************************************************************************)
\* The error kinds start can return in a process of the given role.
C29_Kinds(role) ==
    CASE role = "original" -> {"PathContainsNul", "OpenPidfile", "LockPidfile", "Fork"}
      [] role = "leader" -> {"ChangeDirectory", "DetachSession", "Fork"}
      [] role = "daemon" ->
            {"RedirectStreams", "UserNotFound", "UserContainsNul", "GroupNotFound",
             "GroupContainsNul", "ChownPidfile", "Chroot", "SetGroup", "SetUser",
             "WritePid"}

C29_ReturnedIn(inv) == { p \in ProcsOf(inv) : Returned(p) }

C29_OneReturns ==
    \A inv \in Invocations :
        LET R == C29_ReturnedIn(inv)
        IN /\ Cardinality(R) <= 1
           /\ (\A p \in ProcsOf(inv) : procs[p].status # "running") =>
                 Cardinality(R) = 1
           /\ \A q \in ProcsOf(inv) \ R :
                 /\ procs[q].status # "returned"
                 /\ procs[q].status = "exited" => procs[q].exit_status = Some(0)
           /\ \A p \in R :
                 /\ ~HasChild(p)
                 /\ ReturnedOk(p) => procs[p].role = "daemon"
                 /\ ~ReturnedOk(p) =>
                       Unwrap(procs[p].result).val.kind \in C29_Kinds(procs[p].role)
                 /\ procs[p].role = "original" => ~Has(TraceOf(p), "fork1", TRUE)
                 /\ procs[p].role = "leader" =>
                       /\ Has(TraceOf(p), "fork1", TRUE)
                       /\ ~Has(TraceOf(p), "fork2", TRUE)
                       /\ ReturnedErr(p, "Fork") <=> Has(TraceOf(p), "fork2", FALSE)
                 /\ procs[p].role = "daemon" => Has(TraceOf(p), "fork2", TRUE)

\* All processes of the invocation are done: the child of fork #1 returned
\* an error and the original process exited with status 0.
C29_Witness ==
    \E p, o \in Pids :
        /\ \A q \in Pids : procs[q].status # "running"
        /\ procs[p].role = "leader" /\ Returned(p)
        /\ procs[o].role = "original" /\ procs[o].exit_status = Some(0)
        /\ Cardinality(Pids) = 2

(***************************************************************************)
(* C30.  As claimed: whenever the original process has exited with status  *)
(* 0 in an invocation that goes on to succeed with a pid file, the pid     *)
(* file already holds the daemon's pid.  An invocation can go on to        *)
(* succeed when its daemon has come through every step before the pid      *)
(* write.                                                                  *)
(***************************************************************************)
\* d is the daemon, holds the pid file, and no step before the pid write
\* has failed in it.
C30_CanSucceed(d) ==
    /\ procs[d].role = "daemon"
    /\ IsSome(procs[d].pid_file_fd)
    /\ At(d, "write_pid") \/ At(d, "return_ok") \/ ReturnedOk(d)

C30_Original ==
    \A o, d \in Pids :
        (/\ procs[o].inv = procs[d].inv
         /\ procs[o].role = "original"
         /\ procs[o].exit_status = Some(0)
         /\ C30_CanSucceed(d)) =>
            Content(fs, PidLoc) = FormatPid(d)

(***************************************************************************)
(* C30, amended.  The exit of the original process is not ordered with the *)
(* daemon's pid write: once fork #1 has succeeded the original process can *)
(* run the exit action and exit with status 0 whatever its descendants     *)
(* have done, so it may exit before or after the write.  The pid file      *)
(* holds what it held before start until the daemon writes, and the        *)
(* daemon's pid from the successful write on.                              *)
(***************************************************************************)
C30_ExitNotOrdered ==
    /\ \A o \in Pids :
         /\ At(o, "exit_action") => ENABLED ExitAction(o)
         /\ At(o, "exit") => ENABLED ParentExit(o)
         /\ (procs[o].role = "original" /\ procs[o].exit_status = Some(0)
               /\ ~Returned(o)) =>
               /\ Has(TraceOf(o), "fork1", TRUE)
               /\ calls[procs[o].inv].exit_action = << o >>
    /\ \A d \in Pids :
         C30_CanSucceed(d) =>
            /\ At(d, "write_pid") => Content(fs, PidLoc) = Content(fs0, PidLoc)
            /\ ~At(d, "write_pid") => Content(fs, PidLoc) = FormatPid(d)

\* The original process has exited with status 0 and the daemon, with
\* every earlier step done, has not written its pid yet.
C30_Witness ==
    \E o, d \in Pids :
        /\ procs[o].role = "original" /\ procs[o].exit_status = Some(0)
        /\ procs[o].inv = procs[d].inv
        /\ C30_CanSucceed(d) /\ At(d, "write_pid")
        /\ Content(fs, PidLoc) # FormatPid(d)

(***************************************************************************)
(* C31.  When start returns an error from a step after the pid-file lock   *)
(* was acquired, the returning process still has the pid-file descriptor   *)
(* open and locked; and while a live process in which start failed that    *)
(* way holds it, no further start on the same pid file, in that process or *)
(* in another, acquires the lock: its create_pid_file ends start with an   *)
(* error, which is LockPidfile(EWOULDBLOCK) whenever its open succeeded.   *)
(***************************************************************************)
\* The part of p's history that belongs to its latest call of start.
C31_Latest(p) ==
    LET tr == TraceOf(p)
        starts == { i \in 1..Len(tr) : tr[i].op = "start" }
        from == IF starts = {} THEN 1
                ELSE (CHOOSE i \in starts : \A j \in starts : j <= i) + 1
    IN SubSeq(tr, from, Len(tr))

\* p is alive, start has returned an error in it after it locked the pid
\* file or inherited the lock, and it has not called start again.
C31_FailedHolding(p) ==
    /\ procs[p].status = "returned"
    /\ ~ReturnedOk(p)
    /\ Has(C31_Latest(p), "flock", TRUE)

\* p has a descriptor whose open file description holds the pid-file lock.
C31_HasLocked(p) ==
    \E d \in DOMAIN procs[p].fds, l \in locks :
        l.loc = PidLoc /\ l.ofd = procs[p].fds[d].ofd

C31_State ==
    \A p \in Pids :
        /\ C31_FailedHolding(p) =>
              /\ IsSome(procs[p].pid_file_fd)
              /\ Unwrap(procs[p].pid_file_fd) \in DOMAIN procs[p].fds
              /\ \E l \in locks :
                    /\ l.loc = PidLoc
                    /\ l.ofd = procs[p].fds[Unwrap(procs[p].pid_file_fd)].ofd
        /\ (Alive(p) /\ Has(TraceOf(p), "flock", TRUE)) => C31_HasLocked(p)

C31_Step ==
    \A q \in Pids :
        (/\ At(q, "create_pid_file")
         /\ procs'[q] # procs[q]
         /\ \E p \in Pids : C31_FailedHolding(p) \/ (p = q /\ C31_HasLocked(q))) =>
            LET tr == procs'[q].trace
            IN /\ procs'[q].status = "returned"
               /\ ~Unwrap(procs'[q].result).ok
               /\ locks' = locks
               /\ DOMAIN procs' = DOMAIN procs
               /\ tr[Len(tr)] \in {Event("open", FALSE), Event("flock", FALSE)}
               /\ tr[Len(tr)] = Event("flock", FALSE) =>
                     Unwrap(procs'[q].result).val =
                        DaemonizeError("LockPidfile", "EWOULDBLOCK")

C32_RedirectSucceeds ==
    \A p \in Pids :
        LET tr == TraceOf(p)
            c == Conf(p)
        IN /\ Has(tr, "redirect", FALSE) =>
                 Unwrap(procs[p].result).val.errno \in DevnullErrnos
           /\ (Has(tr, "redirect", TRUE) /\ Alive(p)) =>
                 /\ C15_On(p, STDIN_FILENO, c.stdin, << >>)
                 /\ C15_On(p, STDOUT_FILENO, c.stdout, OutLoc)
                 /\ C15_On(p, STDERR_FILENO, c.stderr, ErrLoc)

(***************************************************************************)
(* C33.  The pid-file chown acts on the file that was opened and locked    *)
(* before fork #1, whatever the pid-file path and the working directory:   *)
(* a process about to chown names that file, and no file other than an     *)
(* opened pid file has had its ownership changed.                          *)
(***************************************************************************)
C33_Opened(p) ==
    IF IsSome(procs[p].pid_file_fd) /\ Unwrap(procs[p].pid_file_fd) \in DOMAIN procs[p].fds
    THEN {procs[p].fds[Unwrap(procs[p].pid_file_fd)].loc}
    ELSE {}

\* The file at l was opened and locked by a caller of start (which stays in
\* the directory it called from).
C33_Locked(l) ==
    \E p \in Pids :
        /\ procs[p].role = "original"
        /\ Has(procs[p].trace, "flock", TRUE)
        /\ Resolve(procs[p].root, procs[p].cwd, Unwrap(Conf(p).pid_file)) = l

C33_ChownsOpenedFile ==
    /\ \A p \in Pids :
          LET me == procs[p]
              c == Conf(p)
          IN (/\ Alive(p)
              /\ At(p, "chown")
              /\ c.chown_pid_file
              /\ IsSome(ChownArgs(c.pid_file, me.uid, me.gid))) =>
                 Resolve(me.root, me.cwd, Unwrap(c.pid_file)) \in C33_Opened(p)
    /\ \A l \in DOMAIN fs0 \cap DOMAIN fs :
          (fs[l].uid # fs0[l].uid \/ fs[l].gid # fs0[l].gid) => C33_Locked(l)

(***************************************************************************)
(* C34.  When a chroot path is configured and start has returned Ok, the   *)
(* working directory of the daemon lies inside the new root.               *)
(***************************************************************************)
C34_Inside(root, cwd) ==
    /\ Len(root) <= Len(cwd)
    /\ SubSeq(cwd, 1, Len(root)) = root

C34_CwdInsideRoot ==
    \A p \in Pids :
        (ReturnedOk(p) /\ IsSome(Conf(p).root)) =>
            C34_Inside(procs[p].root, procs[p].cwd)

=============================================================================
